---- MODULE Spec2Model ----
(***************************************************************************)
(* Model of the LED burst planner of Jungbrunnen (src/src/stream/mod.rs)   *)
(* and of the task that consumes it (src/src/led_orchestrator/mod.rs):     *)
(* the buffer generator calculate_next_buffer, and the pump orchestrate_   *)
(* leds with the PIO state machines and DMA channels it drives; and of the *)
(* error paths of the MQTT task (src/src/mqtt/mod.rs, socket.rs).          *)
(*                                                                         *)
(* Instants and Durations are embassy_time u64 tick counts; the RP2040     *)
(* time driver runs at 1 MHz, so one tick is one microsecond and           *)
(* as_micros / from_micros are the identity on the tick count.             *)
(*                                                                         *)
(* Hz wraps an f32.  The model counts a frequency in half hertz, Hz(60.5)  *)
(* being 121, and takes the multiples of 0.5 Hz below 2^23 Hz (exactly     *)
(* representable in f32).  For those, the correctly rounded f32 quotient   *)
(* 1e6 / hz never rounds up to the next integer, so the `as u64`           *)
(* truncation equals the integer quotient 2000000 \div halves.             *)
(*                                                                         *)
(* A Rust panic is modelled as a result value of its own (PanicInstant,    *)
(* PanicColor) and, in the state machine, as the flag `panicked`, after    *)
(* which the task takes no step.                                           *)
(***************************************************************************)
EXTENDS Integers, Sequences, FiniteSets, TLC

VARIABLES
    config,        \* ColorStepIterator.config: [streams, micros_per_tick, tick_overhead]
    current_time,  \* ColorStepIterator.current_time: Option<Instant>
    red,           \* calculate_next_buffer: the Vec under construction, red channel
    green,         \* ... green channel
    blue,          \* ... blue channel
    returned,      \* Option of the triple last returned by calculate_next_buffer (in
                   \* PumpSpec: the output held by join4, taken at the swap)
    history,       \* one record per next() call that returned, in call order
    panicked,      \* the task has panicked (unwrap, division by zero, overflow)
    probe_stream,  \* PhaseSpec: the StreamConfig the phase functions are applied to
    probe,         \* PhaseSpec: Option of the last application [instant, color, next_change]
    construction,  \* ConstructSpec: Option of the last StreamConfig::new call and its outcome
    pc,            \* orchestrate_leds: the statement the task is at
    front,         \* orchestrate_leds: its Vecs red, green, blue, the ones handed to dma_push
    irq_flags,     \* PIO1: the IRQ flags that are raised, a subset of 0..7
    sm,            \* PIO1: per channel, the state machine sm0 (red), sm1 (green), sm2 (blue)
    tx,            \* PIO1: per channel, the TX FIFO of its state machine
    rx,            \* PIO1: per channel, the RX FIFO of its state machine
    dma,           \* per channel, the DMA channel dma_pio_<colour> that refills the TX FIFO
    pwm_cc,        \* per channel, the compare register of its PWM slice
    fwd,           \* per channel, the DMA pair dma_pwm_<colour>_a, _b that forwards the
                   \* RX FIFO to the compare register
    clock,         \* PIO1 clock dividers: the state machines that have ticked in the
                   \* current divider period, whether one of them executed in it,
                   \* and the periods so far in which one did
    mqtt           \* mqtt_task: where MqttRunner::run is, what it returned, the TX channel,
                   \* the packets written to the socket, the packet of a pending write,
                   \* the RxPacket channel and the messages published to it

pump_vars == <<pc, front, irq_flags, sm, tx, rx, dma, pwm_cc, fwd, clock>>

vars == <<config, current_time, red, green, blue, returned, history, panicked,
          probe_stream, probe, construction, pump_vars, mqtt>>

---------------------------------------------------------------------------
(* Bounds of the model *)

\* streams per generic configuration
MaxStreams == 2
\* next() calls explored per run
MaxCalls == 6
\* BUFFER_SIZE of calculate_next_buffer (2048 in the firmware), scaled down
BufferSize == 2
\* probe instants 0..MaxInstant of PhaseSpec
MaxInstant == 12
\* the transfer count the forward DMA channels are given, in place of u32::MAX
FwdTransCount == 2
\* next() calls explored per run of the pump under fair scheduling
FairCalls == 4
\* the divider periods in which a state machine executes or counts a stall,
\* explored per run of the pump
MaxPeriods == 5
\* ... per run of the pump under fair scheduling
FairPeriods == 4
\* ... per run of the timing program on one state machine
ProgramPeriods == 52
\* the words written to the TX FIFO per run of the timing program
ProgramFeed == 5
\* next() calls whose words one colour channel of the pump is followed through
ChannelCalls == 10
\* the stalls on a full RX FIFO that a state machine counts per word
MaxStalls == 2
\* the iterations of the loop of MqttRunner::run
MaxLoops == 3
\* the packets the TX channel holds, in place of its capacity of 10
MaxQueue == 1
\* the messages the RxPacket channel holds, in place of its capacity of 10
MaxMessages == 1

---------------------------------------------------------------------------
(* Option<T> *)

None == <<>>
Some(x) == <<x>>
unwrap_or(o, d) == IF o = None THEN d ELSE o[1]

(* Instant::MIN *)
Instant_MIN == 0

(* results standing for a panic inside a function returning Instant / Color *)
PanicInstant == -1
PanicColor == [r |-> -1, g |-> -1, b |-> -1]

---------------------------------------------------------------------------
(* Color *)

Color(r, g, b) == [r |-> r, g |-> g, b |-> b]
black == Color(0, 0, 0)

(* Hz(whole as f32), as a count of half hertz *)
Hz(whole) == 2 * whole

(* Hz::as_duration: (1e6 / self.0) as u64, microseconds; hz in half hertz *)
as_duration(hz) == 2000000 \div hz

(* StreamConfig::new with an assertion that rejects a burst as long as the period *)
new_accepts_strict(frequency, burst_duration) == burst_duration < as_duration(frequency)

(* StreamConfig::new: asserts burst_duration <= frequency.as_duration() *)
new_accepts(frequency, burst_duration) == burst_duration <= as_duration(frequency)

StreamConfig_new(color, frequency, burst_duration, offset) ==
    [color |-> color, frequency |-> frequency,
     burst_duration |-> burst_duration, offset |-> unwrap_or(offset, 0)]

(* StreamConfig::get_start *)
get_start(s) == Instant_MIN + s.offset

\* get_color_at_instant with the burst test off by one: phase <= burst_duration
get_color_at_instant_inclusive(s, instant) ==
    IF instant < get_start(s) THEN black
    ELSE LET period == as_duration(s.frequency) IN
         IF period = 0 THEN PanicColor
         ELSE IF (instant - s.offset) % period <= s.burst_duration
              THEN s.color
              ELSE black

\* get_color_at_instant that is still black at the start instant itself
get_color_at_instant_after_start(s, instant) ==
    IF instant <= get_start(s) THEN black
    ELSE LET period == as_duration(s.frequency) IN
         IF period = 0 THEN PanicColor
         ELSE IF (instant - s.offset) % period < s.burst_duration
              THEN s.color
              ELSE black

(* StreamConfig::get_color_at_instant; `%` by a zero period panics *)
get_color_at_instant(s, instant) ==
    IF instant < get_start(s) THEN black
    ELSE LET period == as_duration(s.frequency) IN
         IF period = 0 THEN PanicColor
         ELSE IF (instant - s.offset) % period < s.burst_duration
              THEN s.color
              ELSE black

\* get_next_change_after that always returns the next period boundary
get_next_change_after_period_only(s, instant) ==
    LET start == get_start(s) IN
    IF instant = None THEN start
    ELSE IF instant[1] < start THEN start
    ELSE LET period == as_duration(s.frequency) IN
         IF period = 0 THEN PanicInstant
         ELSE instant[1] + period - ((instant[1] - s.offset) % period)

\* get_next_change_after that answers Instant::MIN, not the stream's start,
\* while the iterator has no current time
get_next_change_after_from_min(s, instant) ==
    LET start == get_start(s) IN
    IF instant = None THEN Instant_MIN
    ELSE IF instant[1] < start THEN start
    ELSE LET period == as_duration(s.frequency) IN
         IF period = 0 THEN PanicInstant
         ELSE LET phase == (instant[1] - s.offset) % period IN
              IF phase < s.burst_duration
              THEN instant[1] + s.burst_duration - phase
              ELSE instant[1] + period - phase

(* StreamConfig::get_next_change_after; `%` by a zero period panics *)
get_next_change_after(s, instant) ==
    LET start == get_start(s) IN
    IF instant = None THEN start
    ELSE IF instant[1] < start THEN start
    ELSE LET period == as_duration(s.frequency) IN
         IF period = 0 THEN PanicInstant
         ELSE LET phase == (instant[1] - s.offset) % period IN
              IF phase < s.burst_duration
              THEN instant[1] + s.burst_duration - phase
              ELSE instant[1] + period - phase

---------------------------------------------------------------------------
(* u32 words.  TLC integers are 32-bit signed, so a u32 is handled as its    *)
(* 32 bits (bit 0 least significant) while it is computed, and stored as the *)
(* pair of fields the PIO program splits it into: the u32 value is           *)
(* hi * 2^24 + lo with hi in 0..255 and lo in 0..2^24-1.                     *)

Bit == 0..31

(* An operand that is used more than once is bound, as the one element of  *)
(* a set, where it is computed: that evaluates it once.                     *)

\* the bits of n, for 0 <= n < 2^31
Bits32(n) == [i \in Bit |-> IF i = 31 THEN 0 ELSE (n \div (2^i)) % 2]

\* x << k on u32: bits shifted out at the top are lost
Shl32(x, k) ==
    CHOOSE shifted \in {[i \in Bit |-> IF i >= k THEN v[i - k] ELSE 0] : v \in {x}} : TRUE

\* x & y
BitAnd32(x, y) ==
    CHOOSE bits \in {[i \in Bit |-> v[i] * w[i]] : v \in {x}, w \in {y}} : TRUE

\* x | y
BitOr32(x, y) ==
    CHOOSE bits \in {[i \in Bit |-> IF v[i] + w[i] > 0 THEN 1 ELSE 0] :
                         v \in {x}, w \in {y}} : TRUE

RECURSIVE BitField(_, _, _)
\* the number held in the n bits of x starting at bit lo
BitField(x, lo, n) ==
    IF n = 0 THEN 0 ELSE x[lo] + 2 * BitField(x, lo + 1, n - 1)

Word(x) ==
    CHOOSE word \in {[hi |-> BitField(v, 24, 8), lo |-> BitField(v, 0, 24)] : v \in {x}} : TRUE

---------------------------------------------------------------------------
(* ColorStep *)

ColorStep(color, delay) == [color |-> color, delay |-> delay]

(* ColorStep::encode: (component as u32) << 24 | self.delay & 0xFFFFFF;     *)
(* Rust binds << tighter than &, and & tighter than |.  The closure is      *)
(* passed as the name of the colour component it reads.                     *)
\* encode with the component shifted by 16 instead of 24
encode_shift16(step, get_color_component) ==
    Word(BitOr32(Shl32(Bits32(step.color[get_color_component]), 16),
                 BitAnd32(Bits32(step.delay), Bits32(16777215))))

\* encode without the 0xFFFFFF mask on the delay
encode_no_mask(step, get_color_component) ==
    Word(BitOr32(Shl32(Bits32(step.color[get_color_component]), 24),
                 Bits32(step.delay)))

encode(step, get_color_component) ==
    Word(BitOr32(Shl32(Bits32(step.color[get_color_component]), 24),
                 BitAnd32(Bits32(step.delay), Bits32(16777215))))

encode_red(step) == encode(step, "r")
encode_green(step) == encode(step, "g")
encode_blue(step) == encode(step, "b")

---------------------------------------------------------------------------
(* ColorStepIterator *)

(* Config::new *)
Config_new(streams, micros_per_tick, tick_overhead) ==
    [streams |-> streams, micros_per_tick |-> micros_per_tick,
     tick_overhead |-> tick_overhead]

Min(S) == CHOOSE x \in S : \A y \in S : x <= y
Max(S) == CHOOSE x \in S : \A y \in S : x >= y

(* the instants the map of get_next_time_after yields *)
next_changes(cfg, instant) ==
    {get_next_change_after(cfg.streams[i], instant) : i \in 1..Len(cfg.streams)}

(* ColorStepIterator::get_next_time_after: Iterator::min is None on an     *)
(* empty list; a panic inside the map propagates.                          *)
\* get_next_time_after that answers Instant::MIN for an empty stream list
get_next_time_after_or_min(cfg, instant) ==
    LET changes == next_changes(cfg, instant) IN
    IF changes = {} THEN Some(Instant_MIN)
    ELSE IF PanicInstant \in changes THEN Some(PanicInstant)
    ELSE Some(Min(changes))

\* get_next_time_after that takes the latest of the streams' next changes
get_next_time_after_latest(cfg, instant) ==
    LET changes == next_changes(cfg, instant) IN
    IF changes = {} THEN None
    ELSE IF PanicInstant \in changes THEN Some(PanicInstant)
    ELSE Some(Max(changes))

get_next_time_after(cfg, instant) ==
    CHOOSE min \in {IF changes = {} THEN None
                    ELSE IF PanicInstant \in changes THEN Some(PanicInstant)
                    ELSE Some(Min(changes)) :
                    changes \in {next_changes(cfg, instant)}} : TRUE

RECURSIVE fold_colors(_, _, _)
(* the fold of next(): per-channel u32 sums of the first n streams' colours *)
fold_colors(cfg, instant, n) ==
    IF n = 0 THEN Color(0, 0, 0)
    ELSE CHOOSE acc \in {Color(sum.r + color.r, sum.g + color.g, sum.b + color.b) :
                          sum \in {fold_colors(cfg, instant, n - 1)},
                          color \in {get_color_at_instant(cfg.streams[n], instant)}} : TRUE

(* some stream's get_color_at_instant panics *)
color_panics(cfg, instant) ==
    \E i \in 1..Len(cfg.streams) :
        get_color_at_instant(cfg.streams[i], instant) = PanicColor

(* the closure normalize of next(): (val * 255 / max) as u8 *)
normalize(val, max) == ((val * 255) \div max) % 256

\* step_color clipping each channel at 255 instead of rescaling
step_color_clip(sum) ==
    Color(Min({sum.r, 255}), Min({sum.g, 255}), Min({sum.b, 255}))

(* the colour of the step, from the channel sums *)
step_color(sum) ==
    CHOOSE color \in
      {IF max > 255
       THEN Color(normalize(s.r, max), normalize(s.g, max), normalize(s.b, max))
       ELSE Color(s.r % 256, s.g % 256, s.b % 256) :
       s \in {sum}, max \in {Max({sum.r, sum.g, sum.b})}} : TRUE

(* u32::saturating_sub *)
\* the delay of next() with the span rounded up to whole ticks
step_delay_round_up(diff, micros_per_tick, tick_overhead) ==
    IF (diff + micros_per_tick - 1) \div micros_per_tick >= tick_overhead
    THEN ((diff + micros_per_tick - 1) \div micros_per_tick) - tick_overhead
    ELSE 0

\* the delay of next() with a plain subtraction in place of the saturating one
step_delay_plain_sub(diff, micros_per_tick, tick_overhead) ==
    (diff \div micros_per_tick) - tick_overhead

saturating_sub(a, b) == IF a >= b THEN a - b ELSE 0

\* step_delay that forgets to subtract the tick overhead
step_delay_no_overhead(diff, micros_per_tick, tick_overhead) ==
    diff \div micros_per_tick

(* `n as u32` for n >= 0: the low 32 bits of n, its low half-word and the   *)
(* half-word above it                                                       *)
as_u32(n) == ((n \div 65536) % 65536) * 65536 + (n % 65536)

\* n is below 2^32, so that `n as u32` is n
fits_u32(n) == n \div 65536 < 65536

(* the delay of the step: ((diff / micros_per_tick) as u32)                *)
(*   .saturating_sub(tick_overhead as u32).  The cast cuts a quotient of   *)
(* 2^32 ticks or more down to its low 32 bits; the instants of this model  *)
(* stay below 2^31, so no step of a run explored here is that long.        *)
step_delay(diff, micros_per_tick, tick_overhead) ==
    saturating_sub(as_u32(diff \div micros_per_tick), as_u32(tick_overhead))

(* ColorStepIterator::next as a function of the iterator's fields:         *)
(* [panic, next_time, eval_time, sum, step].  It panics when the list is   *)
(* empty (unwrap of None), when a stream's period is zero (remainder by    *)
(* zero), when next_time is before current_time (Instant - Instant) and    *)
(* when micros_per_tick is zero (division by zero).                        *)
next(cfg, cur) ==
    CHOOSE item \in
      {LET eval_time == unwrap_or(cur, Instant_MIN)
           failed == [panic |-> TRUE, next_time |-> PanicInstant, eval_time |-> eval_time,
                      sum |-> PanicColor, step |-> ColorStep(PanicColor, 0)]
       IN  IF next_time = None \/ next_time = Some(PanicInstant) THEN failed
           ELSE IF color_panics(cfg, eval_time) THEN failed
           ELSE IF next_time[1] < eval_time THEN failed
           ELSE IF cfg.micros_per_tick = 0 THEN failed
           ELSE LET diff == next_time[1] - eval_time
                    delay == step_delay(diff, cfg.micros_per_tick, cfg.tick_overhead)
                IN [panic |-> FALSE, next_time |-> next_time[1], eval_time |-> eval_time,
                    sum |-> sum, step |-> ColorStep(step_color(sum), delay)] :
       next_time \in {get_next_time_after(cfg, cur)},
       sum \in {fold_colors(cfg, unwrap_or(cur, Instant_MIN), Len(cfg.streams))}} : TRUE

---------------------------------------------------------------------------
(* Inputs: the configurations handed to Config::new *)

\* a colour whose three components differ; two of them overlapping exceed 255
GenericColors == {Color(200, 100, 0)}
\* 250 kHz, 300 kHz and 2 MHz: periods of 4, 3 (3.33 truncated) and 0 microseconds
GenericFrequencies == {Hz(250000), Hz(300000), Hz(2000000)}
GenericBursts == {0, 1, 3}
GenericOffsets == {None, Some(2)}

(* every StreamConfig that StreamConfig::new accepts over the generic inputs *)
GenericStreams ==
    {StreamConfig_new(x[1], x[2], x[3], x[4]) :
        x \in {y \in GenericColors \X GenericFrequencies \X GenericBursts \X GenericOffsets :
                  new_accepts(y[2], y[3])}}

(* the streams of the scenarios S1..S5 of the specification, section 8 *)
S1Stream == StreamConfig_new(Color(255, 0, 0), Hz(100), 1000, None)
S2StreamA == StreamConfig_new(Color(255, 0, 0), Hz(100), 5000, None)
S2StreamB == StreamConfig_new(Color(0, 255, 0), Hz(100), 5000, Some(5000))
S3StreamA == StreamConfig_new(Color(255, 0, 0), Hz(10), 10000, None)
S3StreamB == StreamConfig_new(Color(0, 0, 255), Hz(10), 10000, None)
S3StreamC == StreamConfig_new(Color(0, 255, 0), Hz(10), 10000, None)
S4Stream == StreamConfig_new(Color(128, 128, 128), Hz(1), 100000, Some(500000))
S5Stream == StreamConfig_new(Color(10, 10, 10), Hz(1), 1000000, None)
\* a stream that starts after 20 s: more than 2^24 ticks of one microsecond
LateStream == StreamConfig_new(Color(1, 2, 3), Hz(1), 500000, Some(20000000))

ScenarioLists ==
    {<<S1Stream>>, <<S2StreamA, S2StreamB>>, <<S3StreamA, S3StreamB>>,
     <<S3StreamA, S3StreamB, S3StreamC>>, <<S4Stream>>, <<S5Stream>>, <<LateStream>>}

RECURSIVE SeqsUpTo(_, _)
(* the sequences over S of length at most n *)
SeqsUpTo(S, n) ==
    IF n = 0 THEN {<<>>}
    ELSE LET shorter == SeqsUpTo(S, n - 1) IN
         shorter \cup {Append(q, s) : q \in shorter, s \in S}

StreamLists == SeqsUpTo(GenericStreams, MaxStreams) \cup ScenarioLists

(* <<micros_per_tick, tick_overhead>>: the firmware's 64 and 5, and small grids *)
TickParams == {<<64, 5>>, <<1, 0>>, <<2, 1>>, <<1, 2>>, <<0, 5>>}

Configs == {Config_new(l, p[1], p[2]) : l \in StreamLists, p \in TickParams}

---------------------------------------------------------------------------
(* The hardware that orchestrate_leds programs: PIO1 with the state         *)
(* machines sm0, sm1, sm2 running timing_program, one per colour channel,   *)
(* and per channel a DMA channel into the TX FIFO and a DMA pair from the   *)
(* RX FIFO to the PWM compare register.  The instruction semantics are      *)
(* those of the RP2040 (datasheet, chapter 3).                              *)

Channels == {"red", "green", "blue"}

\* words per TX FIFO and per RX FIFO (the FIFOs are not joined)
FifoDepth == 4

\* shift_out.threshold and shift_in.threshold of timing_config
pull_threshold == 32
push_threshold == 16

\* shift_out with direction Right: OUT takes the least significant bits first
osr_out_right(word, shifted, n) ==
    IF shifted + n <= 24 THEN (word.lo \div (2^shifted)) % (2^n)
    ELSE IF shifted >= 24 THEN (word.hi \div (2^(shifted - 24))) % (2^n)
    ELSE (word.lo \div (2^shifted)) + (2^(24 - shifted)) * (word.hi % (2^(shifted + n - 24)))

(* OUT with shift_out.direction Left: the n bits below the `shifted` most  *)
(* significant bits of the word the OSR was filled with                     *)
osr_out(word, shifted, n) ==
    LET top == 32 - shifted
        bottom == top - n
    IN
    IF top <= 24 THEN (word.lo % (2^top)) \div (2^bottom)
    ELSE IF bottom >= 24 THEN (word.hi % (2^(top - 24))) \div (2^(bottom - 24))
    ELSE (word.hi % (2^(top - 24))) * (2^(24 - bottom)) + (word.lo \div (2^bottom))

(* IN with shift_in.direction Left: the ISR moves up by n bits and takes   *)
(* the n low bits of the source                                             *)
isr_in(isr, source, n) == (isr % (2^(32 - n))) * (2^n) + (source % (2^n))

(* pio.irq_flags.set_all(irqs): embassy-rp writes irqs to IRQ_FORCE, which  *)
(* raises the flags whose bits are set in irqs and leaves the others        *)
set_all(flags, irqs) == flags \cup {i \in 0..7 : (irqs \div (2^i)) % 2 = 1}

(* a state machine after reset and load_program: disabled, at the first     *)
(* instruction, OSR empty (shift count 32), ISR empty.  word, begun, taken, *)
(* pushes, last_push and held record its past: the word its program is      *)
(* working on, the words begun, the words taken from the TX FIFO, the       *)
(* values pushed to the RX FIFO, the last of them, the executions of        *)
(* `jmp x-- delay` since the last `out x 24`, the ticks spent on the word   *)
(* from its `out y 8` on, and the ticks among them that were stalls; of the *)
(* stalls of a word the first MaxStalls are counted.                        *)
sm_reset ==
    [enabled |-> FALSE, pc |-> "wait", x |-> 0, y |-> 0,
     osr |-> [hi |-> 0, lo |-> 0], osr_count |-> 32, isr |-> 0, isr_count |-> 0,
     word |-> [hi |-> 0, lo |-> 0], begun |-> 0, taken |-> 0, pushes |-> 0,
     last_push |-> 0, held |-> 0, spent |-> 0, stalls |-> 0]

\* autopull: the OSR is refilled from the TX FIFO
autopull(r) ==
    [r EXCEPT !.sm.osr = Head(r.tx), !.sm.osr_count = 0, !.sm.taken = @ + 1,
              !.tx = Tail(r.tx)]

(* IN of n bits with autopush: at the threshold the ISR goes to the RX     *)
(* FIFO and is cleared; the instruction stalls while the RX FIFO is full    *)
in_bits(r, source, n, next_pc) ==
    LET isr == isr_in(r.sm.isr, source, n)
        count == r.sm.isr_count + n
    IN  IF count >= push_threshold
        THEN IF Len(r.rx) >= FifoDepth THEN r
             ELSE [r EXCEPT !.sm.isr = 0, !.sm.isr_count = 0, !.sm.pc = next_pc,
                            !.sm.pushes = @ + 1, !.sm.last_push = isr,
                            !.rx = Append(r.rx, isr)]
        ELSE [r EXCEPT !.sm.isr = isr, !.sm.isr_count = count, !.sm.pc = next_pc]

(* OUT of n bits with autopull: on an empty OSR the instruction stalls, and *)
(* the OSR is refilled if the TX FIFO holds a word                          *)
out_bits(r, destination, n, next_pc) ==
    IF r.sm.osr_count >= pull_threshold
    THEN IF r.tx # <<>> THEN autopull(r) ELSE r
    ELSE LET value == osr_out(r.sm.osr, r.sm.osr_count, n)
             shifted == [r EXCEPT !.sm.osr_count = @ + n, !.sm.pc = next_pc]
         IN  IF destination = "y"
             THEN [shifted EXCEPT !.sm.y = value, !.sm.word = r.sm.osr,
                                  !.sm.begun = @ + 1]
             ELSE [shifted EXCEPT !.sm.x = value, !.sm.held = 0]

\* `jmp x-- delay` that leaves the loop one execution early
jmp_x_dec_one_short(r) ==
    [r EXCEPT !.sm.pc = IF r.sm.x > 1 THEN "jmp" ELSE "out_y",
              !.sm.x = @ - 1, !.sm.held = @ + 1]

(* `jmp x-- delay` followed by .wrap: the jump is taken while x is not 0,   *)
(* and x is decremented either way; x is read as a two's complement number, *)
(* so 0 - 1 is the register of all ones                                     *)
jmp_x_dec(r) ==
    [r EXCEPT !.sm.pc = IF r.sm.x # 0 THEN "jmp" ELSE "out_y",
              !.sm.x = @ - 1, !.sm.held = @ + 1]

(* one tick of a state machine running timing_program: it executes, or     *)
(* stalls on, the instruction at pc, and autopull refills an empty OSR      *)
(* whenever the TX FIFO holds a word                                        *)
sm_execute(s, txq, rxq, flags) ==
    LET r == [sm |-> s, tx |-> txq, rx |-> rxq]
        executed ==
            CASE s.pc = "wait" -> IF 0 \in flags THEN r ELSE [r EXCEPT !.sm.pc = "out_y"]
              [] s.pc = "out_y" -> out_bits(r, "y", 8, "in_null")
              [] s.pc = "in_null" -> in_bits(r, 0, 8, "in_y")
              [] s.pc = "in_y" -> in_bits(r, s.y, 8, "out_x")
              [] s.pc = "out_x" -> out_bits(r, "x", 24, "jmp")
              [] s.pc = "jmp" -> jmp_x_dec(r)
        timed ==
            IF s.pc = "out_y"
            THEN IF executed.sm.pc = "in_null"
                 THEN [executed EXCEPT !.sm.spent = 1, !.sm.stalls = 0]
                 ELSE executed
            ELSE IF s.pc = "wait" THEN executed
            ELSE IF executed.sm.pc = s.pc /\ s.pc # "jmp"
                 THEN IF s.stalls < MaxStalls
                      THEN [executed EXCEPT !.sm.spent = @ + 1, !.sm.stalls = @ + 1]
                      ELSE executed
                 ELSE [executed EXCEPT !.sm.spent = @ + 1]
    IN  IF ~s.enabled THEN r
        ELSE IF timed.sm.osr_count >= pull_threshold /\ timed.tx # <<>>
             THEN autopull(timed)
             ELSE timed

\* DREQ of a TX FIFO: raised while the FIFO has room
tx_dreq(txq) == Len(txq) < FifoDepth

\* a write to the TX FIFO; a write to a full FIFO is lost
tx_write(txq, word) == IF Len(txq) < FifoDepth THEN Append(txq, word) ELSE txq

\* a DMA channel that is not busy
dma_idle == [busy |-> FALSE, read_index |-> 1, trans_count |-> 0, launches |-> 0, written |-> 0]

no_buffers == [red |-> <<>>, green |-> <<>>, blue |-> <<>>]

\* the clock dividers before any state machine has executed
clock_reset == [ticked |-> {}, active |-> FALSE, periods |-> 0]

\* mqtt_task not spawned
mqtt_off == [pc |-> "off", result |-> None, queue |-> <<>>, sent |-> <<>>,
             writing |-> None, messages |-> <<>>, subscribed |-> FALSE,
             published |-> 0, loops |-> 0, event |-> None]

\* the two channels of a forward pair: first_dma and second_dma
Pair == {"a", "b"}

\* a forward pair that has not been programmed
fwd_reset ==
    [ch \in Pair |-> [busy |-> FALSE, trans_count |-> 0, reload |-> 0, chain_to |-> ch,
                      en |-> FALSE, moved |-> 0]]

\* sync_pio_to_pwm that chains each channel to itself, which disables chaining
sync_pio_to_pwm_self_chain ==
    [ch \in Pair |->
        [busy |-> ch = "b", trans_count |-> IF ch = "b" THEN FwdTransCount ELSE 0,
         reload |-> FwdTransCount, chain_to |-> ch, en |-> TRUE, moved |-> 0]]

(* the pair after sync_pio_to_pwm: both channels read the RX FIFO of the    *)
(* state machine and write the compare register, paced by the RX DREQ, with *)
(* the transfer count u32::MAX; first_dma is written through al1_ctrl,      *)
(* which does not start it, and chains to second_dma; second_dma is written *)
(* through ctrl_trig, which starts it, and chains to first_dma.  `moved`    *)
(* counts the words a channel has transferred.                              *)
sync_pio_to_pwm ==
    [ch \in Pair |->
        [busy |-> ch = "b", trans_count |-> IF ch = "b" THEN FwdTransCount ELSE 0,
         reload |-> FwdTransCount, chain_to |-> IF ch = "a" THEN "b" ELSE "a",
         en |-> TRUE, moved |-> 0]]

\* a transfer after which a channel that is done triggers no other channel
fwd_transfer_no_chain(pair, ch) ==
    LET count == pair[ch].trans_count - 1
    IN  [pair EXCEPT ![ch].trans_count = count, ![ch].moved = @ + 1,
                     ![ch].busy = count > 0]

(* one transfer of channel ch of a pair: its count goes down by one; at 0   *)
(* the channel is done and triggers the channel it chains to, unless that   *)
(* is itself; a triggered channel starts from its reload value              *)
fwd_transfer(pair, ch) ==
    LET count == pair[ch].trans_count - 1
        to == pair[ch].chain_to
        one == [pair EXCEPT ![ch].trans_count = count, ![ch].moved = @ + 1,
                            ![ch].busy = count > 0]
    IN  IF count = 0 /\ to # ch /\ one[to].en
        THEN [one EXCEPT ![to].busy = TRUE, ![to].trans_count = one[to].reload]
        ELSE one

(* the hardware out of reset, and orchestrate_leds not started *)
PumpOff ==
    /\ pc = "off"
    /\ front = no_buffers
    /\ irq_flags = {}
    /\ sm = [c \in Channels |-> sm_reset]
    /\ tx = [c \in Channels |-> <<>>]
    /\ rx = [c \in Channels |-> <<>>]
    /\ dma = [c \in Channels |-> dma_idle]
    /\ pwm_cc = [c \in Channels |-> 0]
    /\ fwd = [c \in Channels |-> fwd_reset]
    /\ clock = clock_reset

(* heapless Vec::is_full with one word missing *)
is_full_one_short(v) == Len(v) >= BufferSize - 1

(* heapless Vec::is_full for a Vec of capacity BUFFER_SIZE *)
is_full(v) == Len(v) = BufferSize

\* calculate_next_buffer that puts each new word in front of the earlier ones
calculate_next_buffer_prepend(cfg, cur, r, g, b) ==
    IF is_full(r)
    THEN [poll |-> "ready", output |-> [red |-> r, green |-> g, blue |-> b]]
    ELSE LET n == next(cfg, cur) IN
         IF n.panic \/ Len(g) >= BufferSize \/ Len(b) >= BufferSize
         THEN [poll |-> "panic"]
         ELSE [poll |-> "pending",
               current_time |-> Some(n.next_time),
               red |-> <<encode_red(n.step)>> \o r,
               green |-> <<encode_green(n.step)>> \o g,
               blue |-> <<encode_blue(n.step)>> \o b,
               call |-> [eval_time |-> n.eval_time, next_time |-> n.next_time,
                         sum |-> n.sum, step |-> n.step]]

(* one poll of the future of calculate_next_buffer: from the loop test to  *)
(* the next yield_now (pending), to the return (ready) or to a panic of     *)
(* one of the unwraps; n is the value of the one call of next()             *)
calculate_next_buffer(cfg, cur, r, g, b) ==
    IF is_full(r)
    THEN [poll |-> "ready", output |-> [red |-> r, green |-> g, blue |-> b]]
    ELSE CHOOSE poll \in
           {IF n.panic \/ Len(g) >= BufferSize \/ Len(b) >= BufferSize
            THEN [poll |-> "panic"]
            ELSE [poll |-> "pending",
                  current_time |-> Some(n.next_time),
                  red |-> Append(r, encode_red(n.step)),
                  green |-> Append(g, encode_green(n.step)),
                  blue |-> Append(b, encode_blue(n.step)),
                  call |-> [eval_time |-> n.eval_time, next_time |-> n.next_time,
                            sum |-> n.sum, step |-> n.step]] :
            n \in {next(cfg, cur)}} : TRUE

---------------------------------------------------------------------------
(* The generator task: calculate_next_buffer driving the iterator *)

Init ==
    /\ config \in Configs
    /\ current_time = None
    /\ red = <<>>
    /\ green = <<>>
    /\ blue = <<>>
    /\ returned = None
    /\ history = <<>>
    /\ panicked = FALSE
    /\ probe_stream = None
    /\ probe = None
    /\ construction = None
    /\ PumpOff
    /\ mqtt = mqtt_off

(* one iteration of `while !red.is_full()`: next().unwrap(), three pushes,  *)
(* yield_now().  Vec::push fails, and its unwrap panics, on a full Vec.     *)
calculate_next_buffer_step ==
    /\ ~panicked
    /\ Len(red) < BufferSize
    /\ Len(history) < MaxCalls
    /\ LET n == next(config, current_time) IN
       IF n.panic \/ Len(green) >= BufferSize \/ Len(blue) >= BufferSize
       THEN /\ panicked' = TRUE
            /\ UNCHANGED <<current_time, red, green, blue, history>>
       ELSE /\ current_time' = Some(n.next_time)
            /\ red' = Append(red, encode_red(n.step))
            /\ green' = Append(green, encode_green(n.step))
            /\ blue' = Append(blue, encode_blue(n.step))
            /\ history' = Append(history, [eval_time |-> n.eval_time,
                                           next_time |-> n.next_time,
                                           sum |-> n.sum,
                                           step |-> n.step])
            /\ UNCHANGED panicked
    /\ UNCHANGED <<config, returned, probe_stream, probe, construction, pump_vars, mqtt>>

(* the loop ends on a full red Vec: `return (red, green, blue)`; the pump   *)
(* calls again, and the call starts from three empty Vecs.                  *)
calculate_next_buffer_return ==
    /\ ~panicked
    /\ Len(red) = BufferSize
    /\ returned' = Some([red |-> red, green |-> green, blue |-> blue])
    /\ red' = <<>>
    /\ green' = <<>>
    /\ blue' = <<>>
    /\ UNCHANGED <<config, current_time, history, panicked, probe_stream, probe,
                   construction, pump_vars, mqtt>>

Next == calculate_next_buffer_step \/ calculate_next_buffer_return

Spec == Init /\ [][Next]_vars

---------------------------------------------------------------------------
(* The phase functions of one stream, applied to arbitrary instants *)

\* a stream whose colour is black: no instant changes its colour
BlackStream == StreamConfig_new(black, Hz(250000), 1, None)

ProbeStreams == GenericStreams \cup {S1Stream, S2StreamB, BlackStream}

PhaseInit ==
    /\ probe_stream \in ProbeStreams
    /\ probe = None
    /\ config = Config_new(<<>>, 64, 5)
    /\ current_time = None
    /\ red = <<>>
    /\ green = <<>>
    /\ blue = <<>>
    /\ returned = None
    /\ history = <<>>
    /\ panicked = FALSE
    /\ construction = None
    /\ PumpOff
    /\ mqtt = mqtt_off

(* get_color_at_instant(instant) and get_next_change_after(Some(instant)) *)
apply_phase_functions ==
    /\ \E instant \in 0..MaxInstant :
          probe' = Some([instant |-> instant,
                         color |-> get_color_at_instant(probe_stream, instant),
                         next_change |-> get_next_change_after(probe_stream, Some(instant))])
    /\ UNCHANGED <<config, current_time, red, green, blue, returned, history, panicked,
                   probe_stream, construction, pump_vars, mqtt>>

PhaseNext == apply_phase_functions

PhaseSpec == PhaseInit /\ [][PhaseNext]_vars

---------------------------------------------------------------------------
(* StreamConfig::new applied to arbitrary arguments *)

ConstructColors == {Color(200, 100, 0), Color(255, 0, 0), black}
\* periods of 0, 3, 4, 10000, 16528 (60.5 Hz), 16666, 16806 (59.5 Hz) and 1000000
\* microseconds
ConstructFrequencies == {Hz(2000000), Hz(300000), Hz(250000), Hz(100), 121, Hz(60), 119, Hz(1)}
\* around each of the periods, and the firmware's 3 ms
ConstructBursts ==
    {0, 1, 3, 4, 5, 3000, 9999, 10000, 10001, 16528, 16529, 1000000, 1000001}
ConstructOffsets == {None, Some(0), Some(500000)}

ConstructInit ==
    /\ construction = None
    /\ config = Config_new(<<>>, 64, 5)
    /\ current_time = None
    /\ red = <<>>
    /\ green = <<>>
    /\ blue = <<>>
    /\ returned = None
    /\ history = <<>>
    /\ panicked = FALSE
    /\ probe_stream = None
    /\ probe = None
    /\ PumpOff
    /\ mqtt = mqtt_off

(* StreamConfig::new(color, frequency, burst_duration, offset): the        *)
(* core::assert! panics and nothing is returned, or the struct is returned *)
call_StreamConfig_new ==
    /\ \E color \in ConstructColors, frequency \in ConstructFrequencies,
          burst_duration \in ConstructBursts, offset \in ConstructOffsets :
          construction' =
              Some([color |-> color, frequency |-> frequency,
                    burst_duration |-> burst_duration, offset |-> offset,
                    panic |-> ~new_accepts(frequency, burst_duration),
                    value |-> IF new_accepts(frequency, burst_duration)
                              THEN Some(StreamConfig_new(color, frequency,
                                                         burst_duration, offset))
                              ELSE None])
    /\ UNCHANGED <<config, current_time, red, green, blue, returned, history, panicked,
                   probe_stream, probe, pump_vars, mqtt>>

ConstructNext == call_StreamConfig_new

ConstructSpec == ConstructInit /\ [][ConstructNext]_vars

---------------------------------------------------------------------------
(* The task orchestrate_leds from `pio.sm0.set_config` on, with the three   *)
(* state machines and the DMA channels it drives.  sync_pio_to_pwm has run: *)
(* per channel a DMA pair moves every RX FIFO entry to the PWM compare      *)
(* register.  The task, the DMA channels and the state machines run         *)
(* concurrently: the task at any speed, a DMA channel whenever it has a     *)
(* request to serve, each state machine at the ticks of its own clock       *)
(* divider.                                                                 *)

(* the streams and the defines of the timing program that orchestrate_leds  *)
(* hands to Config::new: red at 60 Hz, cyan at 60.5 Hz from 500 ms on,      *)
(* green at 59.5 Hz from 2500 ms on, bursts of 3 ms                         *)
MICROS_PER_TICK == 64
TICK_OVERHEAD == 5

red_stream == StreamConfig_new(Color(255, 0, 0), Hz(60), 3000, None)
cyan_stream == StreamConfig_new(Color(0, 255, 255), 121, 3000, Some(500000))
green_stream == StreamConfig_new(Color(0, 255, 0), 119, 3000, Some(2500000))

PumpConfig ==
    Config_new(<<red_stream, cyan_stream, green_stream>>, MICROS_PER_TICK, TICK_OVERHEAD)

set_config_pc == [red |-> "set_config_red", green |-> "set_config_green",
                  blue |-> "set_config_blue"]
set_enable_pc == [red |-> "set_enable_red", green |-> "set_enable_green",
                  blue |-> "set_enable_blue"]
after_set_enable == [red |-> "set_config_green", green |-> "set_config_blue",
                     blue |-> "set_all"]
dma_push_pc == [red |-> "dma_push_red", green |-> "dma_push_green",
                blue |-> "dma_push_blue"]
after_dma_push == [red |-> "dma_push_green", green |-> "dma_push_blue", blue |-> "join4"]

PumpInit ==
    /\ config = PumpConfig
    /\ current_time = None
    /\ red = <<>>
    /\ green = <<>>
    /\ blue = <<>>
    /\ returned = None
    /\ history = <<>>
    /\ panicked = FALSE
    /\ probe_stream = None
    /\ probe = None
    /\ construction = None
    /\ pc = "set_config_red"
    /\ front = no_buffers
    /\ irq_flags = {}
    /\ sm = [c \in Channels |-> sm_reset]
    /\ tx = [c \in Channels |-> <<>>]
    /\ rx = [c \in Channels |-> <<>>]
    /\ dma = [c \in Channels |-> dma_idle]
    /\ pwm_cc = [c \in Channels |-> 0]
    /\ fwd = [c \in Channels |-> sync_pio_to_pwm]
    /\ clock = clock_reset
    /\ mqtt = mqtt_off

(* pio.smN.set_config(&timing_config): the state machine, still disabled,   *)
(* is set to the first instruction of the program                           *)
set_config ==
    /\ ~panicked
    /\ \E c \in Channels :
          /\ pc = set_config_pc[c]
          /\ sm' = [sm EXCEPT ![c].pc = "wait"]
          /\ pc' = set_enable_pc[c]
    /\ UNCHANGED <<config, current_time, red, green, blue, returned, history, panicked,
                   probe_stream, probe, construction, front, irq_flags, tx, rx, dma,
                   pwm_cc,
                   fwd, clock, mqtt>>

(* pio.smN.set_enable(true) *)
set_enable ==
    /\ ~panicked
    /\ \E c \in Channels :
          /\ pc = set_enable_pc[c]
          /\ sm' = [sm EXCEPT ![c].enabled = TRUE]
          /\ pc' = after_set_enable[c]
    /\ UNCHANGED <<config, current_time, red, green, blue, returned, history, panicked,
                   probe_stream, probe, construction, front, irq_flags, tx, rx, dma,
                   pwm_cc,
                   fwd, clock, mqtt>>

(* pio.irq_flags.set_all(0), then Config::new(..).into_iter() *)
irq_flags_set_all ==
    /\ ~panicked
    /\ pc = "set_all"
    /\ irq_flags' = set_all(irq_flags, 0)
    /\ pc' = "first_buffer"
    /\ UNCHANGED <<config, current_time, red, green, blue, returned, history, panicked,
                   probe_stream, probe, construction, front, sm, tx, rx, dma, pwm_cc,
                   fwd, clock, mqtt>>

(* one poll of `calculate_next_buffer::<_, 2048>(&mut config).await` before *)
(* the loop; its result becomes red, green, blue of orchestrate_leds        *)
await_first_buffer(calls) ==
    /\ ~panicked
    /\ pc = "first_buffer"
    /\ is_full(red) \/ Len(history) < calls
    /\ \E p \in {calculate_next_buffer(config, current_time, red, green, blue)} :
       /\ CASE p.poll = "panic" ->
                 /\ panicked' = TRUE
                 /\ UNCHANGED <<current_time, red, green, blue, history, pc, front>>
            [] p.poll = "pending" ->
                 /\ current_time' = p.current_time
                 /\ red' = p.red
                 /\ green' = p.green
                 /\ blue' = p.blue
                 /\ history' = Append(history, p.call)
                 /\ UNCHANGED <<panicked, pc, front>>
            [] p.poll = "ready" ->
                 /\ front' = p.output
                 /\ red' = <<>>
                 /\ green' = <<>>
                 /\ blue' = <<>>
                 /\ pc' = "dma_push_red"
                 /\ UNCHANGED <<current_time, history, panicked>>
    /\ UNCHANGED <<config, returned, probe_stream, probe, construction, irq_flags, sm,
                   tx, rx, dma, pwm_cc,
                   fwd, clock, mqtt>>

(* pio.smN.tx().dma_push(channel, &buffer, false), an argument of join4:    *)
(* the channel is set to read the whole Vec and is triggered at once        *)
dma_push ==
    /\ ~panicked
    /\ \E c \in Channels :
          /\ pc = dma_push_pc[c]
          /\ dma' = [dma EXCEPT ![c] = [busy |-> Len(front[c]) > 0,
                                        read_index |-> 1,
                                        trans_count |-> Len(front[c]),
                                        launches |-> dma[c].launches + 1,
                                        written |-> dma[c].written]]
          /\ pc' = after_dma_push[c]
    /\ UNCHANGED <<config, current_time, red, green, blue, returned, history, panicked,
                   probe_stream, probe, construction, front, irq_flags, sm, tx, rx,
                   pwm_cc, fwd, clock, mqtt>>

\* join4 that is ready as soon as the generator is
join4_ready_generator_only(output, channels) == output # None

(* join4 is ready when all four futures are: the generator has returned    *)
(* and no refill channel is busy                                            *)
join4_ready(output, channels) ==
    output # None /\ \A c \in Channels : ~channels[c].busy

(* one poll of `join4(..).await`: the generator future, unless it has       *)
(* returned, runs to its next yield_now or to its return, and the three     *)
(* transfers are asked whether their channel is still busy; when all four   *)
(* are done, `red = r; green = g; blue = b;` and the loop starts over       *)
poll_join4(calls) ==
    /\ ~panicked
    /\ pc = "join4"
    /\ returned = None => is_full(red) \/ Len(history) < calls
    /\ \E p \in {IF returned = None
                 THEN calculate_next_buffer(config, current_time, red, green, blue)
                 ELSE [poll |-> "returned"]} :
       LET polled == returned = None
           output == IF ~polled THEN returned
                     ELSE IF p.poll = "ready" THEN Some(p.output) ELSE None
       IN  /\ IF polled /\ p.poll = "panic"
              THEN /\ panicked' = TRUE
                   /\ UNCHANGED <<current_time, red, green, blue, history, returned, pc,
                                  front>>
              ELSE /\ CASE polled /\ p.poll = "pending" ->
                             /\ current_time' = p.current_time
                             /\ red' = p.red
                             /\ green' = p.green
                             /\ blue' = p.blue
                             /\ history' = Append(history, p.call)
                        [] polled /\ p.poll = "ready" ->
                             /\ red' = <<>>
                             /\ green' = <<>>
                             /\ blue' = <<>>
                             /\ UNCHANGED <<current_time, history>>
                        [] OTHER ->
                             UNCHANGED <<current_time, red, green, blue, history>>
                   /\ IF join4_ready(output, dma)
                      THEN /\ front' = output[1]
                           /\ returned' = None
                           /\ pc' = "dma_push_red"
                      ELSE /\ returned' = output
                           /\ UNCHANGED <<pc, front>>
                   /\ UNCHANGED panicked
    /\ UNCHANGED <<config, probe_stream, probe, construction, irq_flags, sm, tx, rx, dma,
                   pwm_cc,
                   fwd, clock, mqtt>>

\* a refill channel that is idle while its last word is still to be moved
dma_refill_transfer_early ==
    /\ \E c \in Channels :
          /\ dma[c].busy
          /\ tx_dreq(tx[c])
          /\ tx' = [tx EXCEPT ![c] = tx_write(tx[c], front[c][dma[c].read_index])]
          /\ dma' = [dma EXCEPT ![c] = [busy |-> dma[c].trans_count > 2,
                                        read_index |-> dma[c].read_index + 1,
                                        trans_count |-> dma[c].trans_count - 1,
                                        launches |-> dma[c].launches,
                                        written |-> dma[c].written + 1]]
    /\ UNCHANGED <<config, current_time, red, green, blue, returned, history, panicked,
                   probe_stream, probe, construction, pc, front, irq_flags, sm, rx,
                   pwm_cc, fwd, clock, mqtt>>

(* a refill channel moves the next word of its buffer to the TX FIFO when  *)
(* the FIFO requests one; after the last word the channel is idle           *)
dma_refill_transfer ==
    /\ \E c \in Channels :
          /\ dma[c].busy
          /\ tx_dreq(tx[c])
          /\ tx' = [tx EXCEPT ![c] = tx_write(tx[c], front[c][dma[c].read_index])]
          /\ dma' = [dma EXCEPT ![c] = [busy |-> dma[c].trans_count > 1,
                                        read_index |-> dma[c].read_index + 1,
                                        trans_count |-> dma[c].trans_count - 1,
                                        launches |-> dma[c].launches,
                                        written |-> dma[c].written + 1]]
    /\ UNCHANGED <<config, current_time, red, green, blue, returned, history, panicked,
                   probe_stream, probe, construction, pc, front, irq_flags, sm, rx,
                   pwm_cc, fwd, clock, mqtt>>

(* the channel of the pair of colour c that is busy moves the low 16 bits  *)
(* of the oldest RX FIFO entry to the compare register of the PWM slice    *)
dma_forward ==
    /\ \E c \in Channels, ch \in Pair :
          /\ rx[c] # <<>>
          /\ fwd[c][ch].busy
          /\ pwm_cc' = [pwm_cc EXCEPT ![c] = Head(rx[c]) % 65536]
          /\ rx' = [rx EXCEPT ![c] = Tail(rx[c])]
          /\ fwd' = [fwd EXCEPT ![c] = fwd_transfer(fwd[c], ch)]
    /\ UNCHANGED <<config, current_time, red, green, blue, returned, history, panicked,
                   probe_stream, probe, construction, pc, front, irq_flags, sm, tx, dma,
                   clock, mqtt>>

\* the state machines that are enabled
enabled_sms == {c \in Channels : sm[c].enabled}

\* the state machines that execute in one step: those that are enabled, when
\* their divider periods begin at the same instant, or one of them by itself
tick_groups ==
    (IF clock.ticked = {} THEN {enabled_sms} ELSE {})
        \cup {{c} : c \in enabled_sms \ clock.ticked}

(* the dividers after the state machines of `group` have ticked; `executed` *)
(* says that the tick changed one of them: it executed its instruction,     *)
(* refilled its OSR or counted a stall.  When every enabled state machine   *)
(* has ticked, the period is over; a period in which every state machine    *)
(* waited at `out y 8` for a word leaves the state as it was and is not     *)
(* counted.  In a run that is followed without a limit of periods (None)   *)
(* the periods are not counted at all.                                      *)
tick_clock(clk, group, executed, periods) ==
    LET active == clk.active \/ executed
    IN  IF enabled_sms \subseteq clk.ticked \cup group
        THEN [ticked |-> {}, active |-> FALSE,
              periods |-> IF active /\ periods # None
                          THEN clk.periods + 1 ELSE clk.periods]
        ELSE [ticked |-> clk.ticked \cup group, active |-> active,
              periods |-> clk.periods]

(* one tick of a clock divider: the state machines of `group` execute or    *)
(* stall on one instruction each.  The three dividers hold the same value,  *)
(* so each enabled state machine ticks once in a divider period; they are   *)
(* neither started nor restarted together (set_config and set_enable one    *)
(* state machine after the other), so a state machine can tick by itself,   *)
(* and the task and the DMA channels can act between its tick and the       *)
(* others'.  Nothing orders a tick after a statement of the task or after   *)
(* the transfer of a waiting DMA request.  The run is followed for          *)
(* Some(n) divider periods in which a state machine executes, or, with      *)
(* None, for as long as it lasts.                                           *)
pio_tick(periods) ==
    /\ periods # None => clock.periods < periods[1]
    /\ \E group \in tick_groups :
          /\ group # {}
          /\ \E after \in {[c \in group |-> sm_execute(sm[c], tx[c], rx[c], irq_flags)]} :
                /\ sm' = [c \in Channels |-> IF c \in group THEN after[c].sm ELSE sm[c]]
                /\ tx' = [c \in Channels |-> IF c \in group THEN after[c].tx ELSE tx[c]]
                /\ rx' = [c \in Channels |-> IF c \in group THEN after[c].rx ELSE rx[c]]
                /\ clock' = tick_clock(clock, group, \E c \in group : after[c].sm # sm[c],
                                     periods)
    /\ UNCHANGED <<config, current_time, red, green, blue, returned, history, panicked,
                   probe_stream, probe, construction, pc, front, irq_flags, dma, pwm_cc,
                   fwd, mqtt>>

\* the statements of the task orchestrate_leds; it is at one of them at a time.  The
\* generator is polled for `calls` steps at most.
orchestrate_leds(calls) ==
    \/ set_config
    \/ set_enable
    \/ irq_flags_set_all
    \/ await_first_buffer(calls)
    \/ dma_push
    \/ poll_join4(calls)

\* the DMA controller: it serves the requests of its channels in turn
dma_controller == dma_refill_transfer \/ dma_forward

PumpNext ==
    \/ orchestrate_leds(MaxCalls)
    \/ dma_controller
    \/ pio_tick(Some(MaxPeriods))

PumpSpec == PumpInit /\ [][PumpNext]_vars

FairPumpNext ==
    \/ orchestrate_leds(FairCalls)
    \/ dma_controller
    \/ pio_tick(Some(FairPeriods))

(* The pump under fair scheduling.  The executor polls the task whenever it *)
(* is woken, and the join4 future is woken by the generator's yield_now and *)
(* by the DMA interrupts, so a statement of the task that can run does run; *)
(* the DMA controller and the PIO are hardware and never pause.             *)
PumpFairness ==
    /\ WF_vars(orchestrate_leds(FairCalls))
    /\ WF_vars(dma_controller)
    /\ WF_vars(pio_tick(Some(FairPeriods)))

FairPumpSpec == PumpInit /\ [][FairPumpNext]_vars /\ PumpFairness

---------------------------------------------------------------------------
(* timing_program on one state machine, applied to arbitrary words.  The    *)
(* state is the one after `pio.sm0.set_enable(true)`: sm0 is enabled and    *)
(* runs the program by itself, and sync_pio_to_pwm has programmed its       *)
(* forward pair.  Words are written to its TX FIFO at any time, as a DMA    *)
(* channel does, and the pair forwards its RX FIFO.                         *)

\* the words written to the TX FIFO: a burst of the firmware (41 ticks of
\* delay at full intensity), a dark word without delay and a short one
ProgramWords ==
    {[hi |-> 255, lo |-> 41], [hi |-> 0, lo |-> 0], [hi |-> 128, lo |-> 1]}

ProgramInit ==
    /\ config = PumpConfig
    /\ current_time = None
    /\ red = <<>>
    /\ green = <<>>
    /\ blue = <<>>
    /\ returned = None
    /\ history = <<>>
    /\ panicked = FALSE
    /\ probe_stream = None
    /\ probe = None
    /\ construction = None
    /\ pc = "set_config_green"
    /\ front = no_buffers
    /\ irq_flags = {}
    /\ sm = [c \in Channels |->
                IF c = "red" THEN [sm_reset EXCEPT !.enabled = TRUE] ELSE sm_reset]
    /\ tx = [c \in Channels |-> <<>>]
    /\ rx = [c \in Channels |-> <<>>]
    /\ dma = [c \in Channels |-> dma_idle]
    /\ pwm_cc = [c \in Channels |-> 0]
    /\ fwd = [c \in Channels |-> sync_pio_to_pwm]
    /\ clock = clock_reset
    /\ mqtt = mqtt_off

(* a word is written to the TX FIFO of sm0 while the FIFO requests one;     *)
(* `written` counts the words, `feed` at most                               *)
tx_push(feed) ==
    /\ dma["red"].written < feed
    /\ tx_dreq(tx["red"])
    /\ \E word \in ProgramWords :
          tx' = [tx EXCEPT !["red"] = tx_write(tx["red"], word)]
    /\ dma' = [dma EXCEPT !["red"].written = @ + 1]
    /\ UNCHANGED <<config, current_time, red, green, blue, returned, history, panicked,
                   probe_stream, probe, construction, pc, front, irq_flags, sm, rx,
                   pwm_cc, fwd, clock, mqtt>>

ProgramNext ==
    \/ tx_push(ProgramFeed)
    \/ dma_forward
    \/ pio_tick(Some(ProgramPeriods))

ProgramSpec == ProgramInit /\ [][ProgramNext]_vars

(* The program under fair scheduling: the PIO and the DMA controller are    *)
(* hardware and never pause; whether a further word is written is open.     *)
ProgramFairness ==
    /\ WF_vars(dma_forward)
    /\ WF_vars(pio_tick(Some(ProgramPeriods)))

FairProgramSpec == ProgramInit /\ [][ProgramNext]_vars /\ ProgramFairness

---------------------------------------------------------------------------
(* One colour channel of the pump, followed through whole words.  The three *)
(* channels share no state: each has its state machine, its TX and RX FIFO, *)
(* its refill channel and its forward pair, and the task meets a channel    *)
(* only where it hands it a buffer (dma_push) and where it waits for the    *)
(* transfer (join4).  Here the red channel runs by itself from the state    *)
(* after `pio.sm0.set_enable(true)`: the task hands it the buffers the      *)
(* generator computes, each at any time after the transfer of the one       *)
(* before has finished, which covers every delay the generator and the      *)
(* other two transfers cause in join4.                                      *)

\* the steps of the first n calls of next() on the iterator of `cfg` at `cur`
RECURSIVE next_steps(_, _, _)
next_steps(cfg, cur, n) ==
    IF n = 0 THEN <<>>
    ELSE CHOOSE steps \in
           {<<item.step>> \o next_steps(cfg, Some(item.next_time), n - 1) :
            item \in {next(cfg, cur)}} : TRUE

\* the steps the generator of orchestrate_leds computes in ChannelCalls calls
PumpSteps == next_steps(PumpConfig, None, ChannelCalls)

\* the Vecs `red` that calculate_next_buffer returns one after the other
red_buffers ==
    [n \in 1..(ChannelCalls \div BufferSize) |->
        [i \in 1..BufferSize |-> encode_red(PumpSteps[(n - 1) * BufferSize + i])]]

(* the pump loop as the red channel meets it: once the transfer of its      *)
(* buffer is done (its future of join4 is ready), `red = r` and             *)
(* pio.sm0.tx().dma_push(dma_pio_red, &red, false) hand the next buffer to  *)
(* the refill channel, which is triggered at once; the generator is asked   *)
(* for `calls` steps at most                                                *)
dma_push_red(calls) ==
    /\ ~dma["red"].busy
    /\ (dma["red"].launches + 1) * BufferSize <= calls
    /\ front' = [front EXCEPT !["red"] = red_buffers[dma["red"].launches + 1]]
    /\ dma' = [dma EXCEPT !["red"] = [busy |-> TRUE,
                                      read_index |-> 1,
                                      trans_count |-> BufferSize,
                                      launches |-> dma["red"].launches + 1,
                                      written |-> dma["red"].written]]
    /\ UNCHANGED <<config, current_time, red, green, blue, returned, history, panicked,
                   probe_stream, probe, construction, pc, irq_flags, sm, tx, rx,
                   pwm_cc, fwd, clock, mqtt>>

ChannelNext ==
    \/ dma_push_red(ChannelCalls)
    \/ dma_refill_transfer
    \/ dma_forward
    \/ pio_tick(None)

ChannelSpec == ProgramInit /\ [][ChannelNext]_vars

(* The channel under fair scheduling: the task is polled whenever it is     *)
(* woken, so a buffer that can be handed over is; the DMA controller serves *)
(* each channel that has a request, and the PIO never pauses.               *)
ChannelFairness ==
    /\ WF_vars(dma_push_red(ChannelCalls))
    /\ WF_vars(dma_refill_transfer)
    /\ WF_vars(dma_forward)
    /\ WF_vars(pio_tick(None))

FairChannelSpec == ProgramInit /\ [][ChannelNext]_vars /\ ChannelFairness

---------------------------------------------------------------------------
(* mqtt_task: MqttRunner::run and the two handlers.  What the network and   *)
(* the other tasks do is input: the outcome of the DNS query, of connect,   *)
(* of each socket read and write, the TxPackets sent to the channel, and    *)
(* the subscriber of the RxPacket channel.  The task is suspended where an  *)
(* await finds its future pending; the other tasks run meanwhile.           *)

Ok(value) == [ok |-> TRUE, value |-> value]
Err(error) == [ok |-> FALSE, error |-> error]
unit == "()"

\* the capacity of the heapless Vec that handle_transmit collects topics in
SubscribeCapacity == 5

\* what a write of one packet to the socket can end in: encode_slice fails,
\* TcpSocket::write fails, or the packet is written
WriteOutcomes == {"written", "EncodeError", "TcpError"}

\* what the first poll of send_packet can do: end, or find TcpSocket::write
\* pending
WritePolls == WriteOutcomes \cup {"pending"}

\* the results of socket.read_packet: the read fails, decode_slice fails,
\* the bytes hold no whole packet, or a packet is decoded
Packets ==
    {[kind |-> "Connack"], [kind |-> "Pingresp"],
     [kind |-> "Publish", utf8 |-> TRUE], [kind |-> "Publish", utf8 |-> FALSE]}
ReadResults ==
    {Err("TcpError"), Err("DecodeError"), Ok(None)} \cup {Ok(Some(p)) : p \in Packets}

\* the TxPackets other tasks send: a Subscribe carries `topics` topics, of
\* which number `long` (0: none) does not fit a heapless String
TxPackets ==
    {[kind |-> "Pingreq"], [kind |-> "Publish"]} \cup
    {[kind |-> "Subscribe", topics |-> n, long |-> l] :
        n \in {1, SubscribeCapacity + 1}, l \in {0, 1, SubscribeCapacity + 1}}

(* TcpSocket::write has ended: `?` turns its error into TcpError, and the   *)
(* packet is on the wire only if it succeeded                               *)
write(sent, kind, outcome) ==
    IF outcome = "written"
    THEN [poll |-> "ready", result |-> Ok(unit), sent |-> Append(sent, kind)]
    ELSE [poll |-> "ready", result |-> Err(outcome), sent |-> sent]

(* MqttSocket::send_packet up to its return or to a pending write: `?` on   *)
(* encode_slice (EncodeError), then write(..).await                         *)
send_packet(sent, kind, poll) ==
    IF poll = "pending"
    THEN [poll |-> "pending", sent |-> sent]
    ELSE write(sent, kind, poll)

(* Publisher::publish, one poll: without a subscriber the message is        *)
(* dropped; with one, it is queued unless the channel is full               *)
try_publish(messages, subscribed, message) ==
    IF ~subscribed THEN Ok(messages)
    ELSE IF Len(messages) >= MaxMessages THEN Err(message)
    ELSE Ok(Append(messages, message))

\* handle_receive that reads the payload with a lossy conversion
handle_receive_lossy(packet, m) ==
    IF packet.kind = "Connack"
    THEN LET p == try_publish(m.messages, m.subscribed, "Connected") IN
         IF p.ok
         THEN [poll |-> "ready", result |-> Ok(unit), messages |-> p.value,
               published |-> m.published + 1]
         ELSE [poll |-> "pending"]
    ELSE [poll |-> "ready", result |-> Ok(unit), messages |-> m.messages,
          published |-> m.published]

(* MqttRunner::handle_receive up to its return or to a pending publish: `?` *)
(* on from_utf8 of a Publish payload (Utf8Error becomes DecodeError); a     *)
(* Connack publishes RxPacket::Connected                                    *)
handle_receive(packet, m) ==
    IF packet.kind = "Publish"
    THEN IF packet.utf8
         THEN [poll |-> "ready", result |-> Ok(unit), messages |-> m.messages,
               published |-> m.published]
         ELSE [poll |-> "ready", result |-> Err("DecodeError"), messages |-> m.messages,
               published |-> m.published]
    ELSE IF packet.kind = "Connack"
    THEN LET p == try_publish(m.messages, m.subscribed, "Connected") IN
         IF p.ok
         THEN [poll |-> "ready", result |-> Ok(unit), messages |-> p.value,
               published |-> m.published + 1]
         ELSE [poll |-> "pending"]
    ELSE [poll |-> "ready", result |-> Ok(unit), messages |-> m.messages,
          published |-> m.published]

(* the collect of handle_transmit: the topics are converted in order; a     *)
(* topic that does not fit its String ends the collect with Err(()), which  *)
(* `?` turns into Generic; pushing a topic into the full Vec panics         *)
collect_topics(topics, long) ==
    IF long >= 1 /\ long <= topics /\ long <= SubscribeCapacity + 1
    THEN "Generic"
    ELSE IF topics > SubscribeCapacity THEN "panic" ELSE "collected"

(* MqttRunner::handle_transmit up to its return or to a pending write *)
handle_transmit(packet, sent, poll) ==
    IF packet.kind = "Subscribe"
    THEN LET topics == collect_topics(packet.topics, packet.long) IN
         IF topics = "panic" THEN [panic |-> TRUE, sent |-> sent]
         ELSE IF topics = "Generic"
              THEN [panic |-> FALSE, poll |-> "ready", result |-> Err("Generic"),
                    sent |-> sent]
              ELSE [panic |-> FALSE] @@ send_packet(sent, "Subscribe", poll)
    ELSE [panic |-> FALSE] @@ send_packet(sent, packet.kind, poll)

MqttInit ==
    /\ config = Config_new(<<>>, 64, 5)
    /\ current_time = None
    /\ red = <<>>
    /\ green = <<>>
    /\ blue = <<>>
    /\ returned = None
    /\ history = <<>>
    /\ panicked = FALSE
    /\ probe_stream = None
    /\ probe = None
    /\ construction = None
    /\ PumpOff
    /\ mqtt = [mqtt_off EXCEPT !.pc = "resolve"]

\* everything but mqtt
not_mqtt == <<config, current_time, red, green, blue, returned, history, panicked,
              probe_stream, probe, construction, pump_vars>>

(* run, first statement: resolve_server_address(..).await? *)
resolve_server_address ==
    /\ mqtt.pc = "resolve"
    /\ \E address \in {Ok("ip"), Err("DnsError")} :
          mqtt' = IF address.ok
                  THEN [mqtt EXCEPT !.pc = "connect"]
                  ELSE [mqtt EXCEPT !.pc = "returned", !.result = Some(address)]
    /\ UNCHANGED not_mqtt

(* run, second statement: connect(..).await?, which is socket.connect(..)?  *)
(* and send_packet(&connect)?; socket.connect has ended and send_packet     *)
(* runs to its return or to a pending write                                 *)
connect ==
    /\ mqtt.pc = "connect"
    /\ \E connected \in {Ok(unit), Err("ConnectError")}, poll \in WritePolls :
          LET s == send_packet(mqtt.sent, "Connect", poll) IN
          mqtt' = IF ~connected.ok
                  THEN [mqtt EXCEPT !.pc = "returned", !.result = Some(connected)]
                  ELSE IF s.poll = "pending"
                  THEN [mqtt EXCEPT !.pc = "write", !.writing = Some("Connect")]
                  ELSE IF ~s.result.ok
                  THEN [mqtt EXCEPT !.pc = "returned", !.result = Some(s.result)]
                  ELSE [mqtt EXCEPT !.pc = "select", !.sent = s.sent]
    /\ UNCHANGED not_mqtt

(* another task sends a TxPacket to the channel (mqtt_heartbeat: Pingreq) *)
sender_send ==
    /\ mqtt.pc # "off"
    /\ Len(mqtt.queue) < MaxQueue
    /\ \E packet \in TxPackets :
          mqtt' = [mqtt EXCEPT !.queue = Append(@, packet)]
    /\ UNCHANGED not_mqtt

(* another task takes a subscriber of the RxPacket channel *)
subscriber ==
    /\ mqtt.pc # "off"
    /\ ~mqtt.subscribed
    /\ mqtt' = [mqtt EXCEPT !.subscribed = TRUE]
    /\ UNCHANGED not_mqtt

(* the subscriber takes the oldest message of the RxPacket channel *)
subscriber_next_message ==
    /\ mqtt.pc # "off"
    /\ mqtt.subscribed
    /\ mqtt.messages # <<>>
    /\ mqtt' = [mqtt EXCEPT !.messages = Tail(@)]
    /\ UNCHANGED not_mqtt

\* the arm of the match that a result of select takes
run_match(either, value) ==
    IF either = "First"
    THEN IF value.ok /\ value.value # None THEN "handle_receive" ELSE "_"
    ELSE "handle_transmit"

(* one iteration of the loop of run in which select yields Either::First:   *)
(* read_packet has finished; only Ok(Some(packet)) goes to handle_receive,  *)
(* which returns or is suspended in publish                                 *)
run_select_first ==
    /\ mqtt.pc = "select"
    /\ mqtt.loops < MaxLoops
    /\ \E read \in ReadResults :
          LET arm == run_match("First", read)
              event == [either |-> "First", value |-> read, arm |-> arm]
              looped == [mqtt EXCEPT !.loops = @ + 1, !.event = Some(event)]
          IN  IF arm = "handle_receive"
              THEN LET h == handle_receive(read.value[1], mqtt) IN
                   mqtt' = IF h.poll = "pending"
                           THEN [looped EXCEPT !.pc = "publish"]
                           ELSE IF h.result.ok
                           THEN [looped EXCEPT !.messages = h.messages,
                                               !.published = h.published]
                           ELSE [looped EXCEPT !.pc = "returned",
                                               !.result = Some(h.result)]
              ELSE mqtt' = looped
    /\ UNCHANGED not_mqtt

(* the channel has room again: publish queues RxPacket::Connected,          *)
(* handle_receive returns Ok and run is back at its select                  *)
publish ==
    /\ mqtt.pc = "publish"
    /\ \E p \in {try_publish(mqtt.messages, mqtt.subscribed, "Connected")} :
          /\ p.ok
          /\ mqtt' = [mqtt EXCEPT !.pc = "select", !.messages = p.value,
                                  !.published = @ + 1]
    /\ UNCHANGED not_mqtt

(* one iteration in which select yields Either::Second: receive has taken   *)
(* a TxPacket from the channel and it goes to handle_transmit, which        *)
(* returns or is suspended in the write                                     *)
run_select_second ==
    /\ mqtt.pc = "select"
    /\ mqtt.loops < MaxLoops
    /\ mqtt.queue # <<>>
    /\ \E poll \in WritePolls :
          LET packet == Head(mqtt.queue)
              arm == run_match("Second", packet)
              event == [either |-> "Second", value |-> packet, arm |-> arm,
                        outcome |-> poll]
              looped == [mqtt EXCEPT !.loops = @ + 1, !.event = Some(event),
                                     !.queue = Tail(@)]
              h == handle_transmit(packet, mqtt.sent, poll)
          IN  mqtt' = IF h.panic THEN [looped EXCEPT !.pc = "panicked"]
                      ELSE IF h.poll = "pending"
                      THEN [looped EXCEPT !.pc = "write", !.writing = Some(packet.kind)]
                      ELSE IF h.result.ok THEN [looped EXCEPT !.sent = h.sent]
                      ELSE [looped EXCEPT !.pc = "returned", !.result = Some(h.result)]
    /\ UNCHANGED not_mqtt

(* the pending write of send_packet ends: after the Connect packet connect  *)
(* returns the socket, after a TxPacket handle_transmit returns; an error   *)
(* is returned by run                                                       *)
socket_write ==
    /\ mqtt.pc = "write"
    /\ \E outcome \in {"written", "TcpError"} :
          LET w == write(mqtt.sent, mqtt.writing[1], outcome) IN
          mqtt' = IF w.result.ok
                  THEN [mqtt EXCEPT !.pc = "select", !.sent = w.sent, !.writing = None]
                  ELSE [mqtt EXCEPT !.pc = "returned", !.result = Some(w.result),
                                    !.writing = None]
    /\ UNCHANGED not_mqtt

(* mqtt_task: run(..).await.unwrap() panics on Err; after an Ok the task    *)
(* would reach unreachable!                                                 *)
mqtt_task_unwrap ==
    /\ mqtt.pc = "returned"
    /\ mqtt' = [mqtt EXCEPT !.pc = IF mqtt.result[1].ok THEN "unreachable"
                                   ELSE "panicked"]
    /\ UNCHANGED not_mqtt

MqttNext ==
    \/ resolve_server_address
    \/ connect
    \/ sender_send
    \/ subscriber
    \/ subscriber_next_message
    \/ run_select_first
    \/ publish
    \/ run_select_second
    \/ socket_write
    \/ mqtt_task_unwrap

MqttSpec == MqttInit /\ [][MqttNext]_vars

---------------------------------------------------------------------------
(* Properties *)

Calls == 1..Len(history)

\* the call that returned last; every call is the latest one in the state it leads to
LatestCall == IF history = <<>> THEN {} ELSE {Len(history)}

\* the buffer triples in the state: the one under construction and the one returned
Triples ==
    {[red |-> red, green |-> green, blue |-> blue]} \cup
    (IF returned = None THEN {} ELSE {returned[1]})

(* C1: the three encodings of every step carry the same low-24-bit delay     *)
(* field, and every buffer triple of calculate_next_buffer has three buffers *)
(* of equal length whose i-th words carry the same delay.                    *)
C1_ChannelDelaysAgree ==
    /\ \A i \in LatestCall :
          /\ encode_red(history[i].step).lo = encode_green(history[i].step).lo
          /\ encode_green(history[i].step).lo = encode_blue(history[i].step).lo
    /\ \A t \in Triples :
          /\ Len(t.red) = Len(t.green)
          /\ Len(t.green) = Len(t.blue)
          /\ \A i \in 1..Len(t.red) :
                t.red[i].lo = t.green[i].lo /\ t.green[i].lo = t.blue[i].lo

\* a returned, full triple in which a word pair differs in intensity and holds a
\* non-zero delay
C1_Witness ==
    /\ returned # None
    /\ Len(returned[1].red) = BufferSize
    /\ \E i \in 1..BufferSize :
          /\ returned[1].red[i].hi # returned[1].green[i].hi
          /\ returned[1].green[i].hi # returned[1].blue[i].hi
          /\ returned[1].red[i].lo > 0

RECURSIVE ChannelSum(_, _, _, _)
\* the sum over the first n streams of component c of their colour at instant t
ChannelSum(cfg, t, c, n) ==
    IF n = 0 THEN 0
    ELSE ChannelSum(cfg, t, c, n - 1) + get_color_at_instant(cfg.streams[n], t)[c]

(* C8: with (r,g,b) the per-channel sums of the streams' colours at the       *)
(* evaluated instant and max their maximum, a returned step's colour is       *)
(* (r,g,b) when max <= 255, and floor(channel * 255 / max) per channel        *)
(* otherwise, the largest channel becoming 255.                               *)
C8_Normalization ==
    \A i \in Calls :
        LET h == history[i]
            n == Len(config.streams)
            r == ChannelSum(config, h.eval_time, "r", n)
            g == ChannelSum(config, h.eval_time, "g", n)
            b == ChannelSum(config, h.eval_time, "b", n)
            max == Max({r, g, b})
        IN  IF max <= 255
            THEN h.step.color = Color(r, g, b)
            ELSE /\ h.step.color = Color((r * 255) \div max, (g * 255) \div max,
                                         (b * 255) \div max)
                 /\ Max({h.step.color.r, h.step.color.g, h.step.color.b}) = 255

\* two overlapping streams of colour (200,100,0): sums (400,200,0), step (255,127,0)
C8_Witness ==
    \E i \in Calls :
        /\ history[i].sum = Color(400, 200, 0)
        /\ history[i].step.color = Color(255, 127, 0)

(* C9: encode_red returns (r << 24) | (d & 0x00FFFFFF), encode_green and      *)
(* encode_blue the same with g and b: the top 8 bits of the word are the      *)
(* channel byte, the low 24 bits are d modulo 2^24.                           *)
C9_EncodeLayout ==
    \A i \in LatestCall :
        LET s == history[i].step IN
        /\ encode_red(s) = [hi |-> s.color.r, lo |-> s.delay % 16777216]
        /\ encode_green(s) = [hi |-> s.color.g, lo |-> s.delay % 16777216]
        /\ encode_blue(s) = [hi |-> s.color.b, lo |-> s.delay % 16777216]

\* a step whose delay does not fit 24 bits and a step of non-zero intensity and
\* delay, both encoded into the red buffer
C9_Witness ==
    /\ \E i \in Calls : \E t \in Triples : \E j \in 1..Len(t.red) :
          /\ history[i].step.delay >= 16777216
          /\ t.red[j] = [hi |-> history[i].step.color.r,
                         lo |-> history[i].step.delay - 16777216]
    /\ \E i \in Calls : \E t \in Triples : \E j \in 1..Len(t.red) :
          /\ history[i].step.color.r > 0
          /\ history[i].step.delay > 0
          /\ t.red[j] = [hi |-> history[i].step.color.r, lo |-> history[i].step.delay]

\* the step records of the first n calls
Steps(n) == [i \in 1..n |-> history[i].step]

(* C2: scenario S1 (micros_per_tick 64, tick_overhead 5, one stream of        *)
(* colour (255,0,0), 100 Hz, burst 1 ms, offset 0): the first four steps of a *)
(* fresh iterator are (255,0,0)/10, (0,0,0)/135, (255,0,0)/10, (0,0,0)/135.   *)
C2_S1FirstFourSteps ==
    (config = Config_new(<<S1Stream>>, 64, 5) /\ Len(history) >= 4) =>
        Steps(4) = <<ColorStep(Color(255, 0, 0), 10), ColorStep(black, 135),
                     ColorStep(Color(255, 0, 0), 10), ColorStep(black, 135)>>

\* what the iterator returns in scenario S1: a first step of zero delay for the
\* empty interval before offset 0, and the claimed sequence from the second step on
C2_S1StepsOfTheCode ==
    (config = Config_new(<<S1Stream>>, 64, 5) /\ Len(history) >= 5) =>
        Steps(5) = <<ColorStep(Color(255, 0, 0), 0),
                     ColorStep(Color(255, 0, 0), 10), ColorStep(black, 135),
                     ColorStep(Color(255, 0, 0), 10), ColorStep(black, 135)>>

\* the PIO time, in microseconds, that call i accounts for
Accounted(i) ==
    (history[i].step.delay + config.tick_overhead) * config.micros_per_tick

\* the wall time, in microseconds, that call i covers
Span(i) == history[i].next_time - history[i].eval_time

\* the saturating subtraction clamped the delay of call i
Clamped(i) == Span(i) \div config.micros_per_tick < config.tick_overhead

Abs(x) == IF x < 0 THEN -x ELSE x

(* C3 as stated: for any two consecutive steps, the delays plus tick_overhead *)
(* per step, in microseconds, equal the wall time the two steps cover up to   *)
(* one tick.                                                                  *)
C3_DelayAccountingOneTick ==
    \A i \in Calls :
        i + 1 \in Calls =>
            Abs(Span(i) + Span(i + 1) - (Accounted(i) + Accounted(i + 1)))
                <= config.micros_per_tick

(* C3 amended: for any two consecutive steps neither of whose delays was      *)
(* clamped, the accounted time never exceeds the wall time covered and falls  *)
(* short of it by less than one tick per step, two ticks for the pair.        *)
C3_DelayAccountingTickPerStep ==
    \A i \in Calls :
        (i + 1 \in Calls /\ ~Clamped(i) /\ ~Clamped(i + 1)) =>
            LET short == Span(i) + Span(i + 1) - (Accounted(i) + Accounted(i + 1)) IN
            0 <= short /\ short < 2 * config.micros_per_tick

\* two consecutive unclamped steps with a positive overhead that fall short of
\* the wall time by more than one tick
C3_Witness ==
    \E i \in Calls :
        /\ i + 1 \in Calls
        /\ ~Clamped(i) /\ ~Clamped(i + 1)
        /\ config.tick_overhead > 0
        /\ history[i].step.delay > 0 /\ history[i + 1].step.delay > 0
        /\ Span(i) + Span(i + 1) - (Accounted(i) + Accounted(i + 1))
              > config.micros_per_tick

\* the order of Option<Instant>: None is below every Some
OptionLess(a, b) == IF a = None THEN b # None ELSE b # None /\ a[1] < b[1]
OptionLeq(a, b) == a = b \/ OptionLess(a, b)

\* some stream has reached its offset at instant t
AnyStreamActive(cfg, t) ==
    \E i \in 1..Len(cfg.streams) : t >= get_start(cfg.streams[i])

\* some stream's period floors to zero microseconds
ZeroPeriod(cfg) ==
    \E i \in 1..Len(cfg.streams) : as_duration(cfg.streams[i].frequency) = 0

(* C7: over the next() calls of an iterator (positive micros_per_tick) the    *)
(* successive current_time values never decrease, and each call strictly      *)
(* increases current_time whenever a stream has reached its offset at the     *)
(* evaluated instant.                                                         *)
C7_Monotonicity ==
    [][(calculate_next_buffer_step /\ config.micros_per_tick > 0) =>
          /\ OptionLeq(current_time, current_time')
          /\ AnyStreamActive(config, unwrap_or(current_time, Instant_MIN)) =>
                OptionLess(current_time, current_time')]_vars

\* C7 for the configurations in which every period is at least one microsecond
C7_MonotonicityPositivePeriods ==
    [][(calculate_next_buffer_step /\ config.micros_per_tick > 0 /\ ~ZeroPeriod(config)) =>
          /\ OptionLeq(current_time, current_time')
          /\ AnyStreamActive(config, unwrap_or(current_time, Instant_MIN)) =>
                OptionLess(current_time, current_time')]_vars

\* the preconditions of C10: a non-empty list of streams that StreamConfig::new
\* accepts, and a positive micros_per_tick
ValidConfig(cfg) ==
    /\ Len(cfg.streams) > 0
    /\ \A i \in 1..Len(cfg.streams) :
          new_accepts(cfg.streams[i].frequency, cfg.streams[i].burst_duration)
    /\ cfg.micros_per_tick > 0

(* C10: for every non-empty list of streams with burst_duration <= period     *)
(* (periods of 0 microseconds included) and positive micros_per_tick, no call *)
(* of next() panics.                                                          *)
C10_IteratorNeverFails == ValidConfig(config) => ~panicked

\* C10 for the configurations in which every period is at least one microsecond
C10_NeverFailsPositivePeriods ==
    (ValidConfig(config) /\ ~ZeroPeriod(config)) => ~panicked

---------------------------------------------------------------------------
(* Properties of the phase functions, under PhaseSpec *)

\* instant t is offset + k * period + shift for some k >= 0
OnGrid(s, t, shift) ==
    \E k \in 0..MaxInstant : t = s.offset + k * as_duration(s.frequency) + shift

(* C4 as stated: for every stream StreamConfig::new accepts and every k >= 0, *)
(* the colour at offset + k*period is the stream's colour and the colour at   *)
(* offset + k*period + burst_duration is black.                               *)
C4_Alignment ==
    probe # None =>
        LET s == probe_stream
            p == probe[1]
        IN  /\ OnGrid(s, p.instant, 0) => p.color = s.color
            /\ OnGrid(s, p.instant, s.burst_duration) => p.color = black

(* C4 amended: the colour at offset + k*period is the stream's colour when    *)
(* burst_duration > 0, and the colour at offset + k*period + burst_duration   *)
(* is black when burst_duration < period.                                     *)
C4_AlignmentProperBurst ==
    probe # None =>
        LET s == probe_stream
            p == probe[1]
        IN  /\ (s.burst_duration > 0 /\ OnGrid(s, p.instant, 0)) => p.color = s.color
            /\ (s.burst_duration < as_duration(s.frequency)
                  /\ OnGrid(s, p.instant, s.burst_duration)) => p.color = black

\* a burst end after the first period of a stream with 0 < burst < period, an
\* offset and a colour: the colour there is black
C4_Witness ==
    /\ probe # None
    /\ probe_stream.burst_duration > 0
    /\ probe_stream.burst_duration < as_duration(probe_stream.frequency)
    /\ probe_stream.offset > 0
    /\ probe_stream.color # black
    /\ \E k \in 1..MaxInstant :
          probe[1].instant = probe_stream.offset
                             + k * as_duration(probe_stream.frequency)
                             + probe_stream.burst_duration
    /\ probe[1].color = black

\* get_color_at_instant, with a panic of get_next_change_after carried over
color_after(s, change) ==
    IF change = PanicInstant THEN PanicColor ELSE get_color_at_instant(s, change)

(* C5 as stated: for every stream StreamConfig::new accepts and every instant *)
(* t, the colour at t differs from the colour at get_next_change_after(t).    *)
C5_ChangeTimeFixpoint ==
    probe # None =>
        /\ probe[1].next_change # PanicInstant
        /\ probe[1].color # color_after(probe_stream, probe[1].next_change)

(* C5 amended: the colour at t differs from the colour at                     *)
(* get_next_change_after(t) for every stream of a colour other than black     *)
(* with 0 < burst_duration < period.                                          *)
C5_ChangeTimeFixpointProperBurst ==
    (/\ probe # None
     /\ probe_stream.color # black
     /\ probe_stream.burst_duration > 0
     /\ probe_stream.burst_duration < as_duration(probe_stream.frequency)) =>
        /\ probe[1].next_change # PanicInstant
        /\ probe[1].color # color_after(probe_stream, probe[1].next_change)

\* an instant inside a burst after the first period: the next change is the
\* end of that burst, where the colour is black
C5_Witness ==
    /\ probe # None
    /\ probe_stream.burst_duration > 1
    /\ probe_stream.burst_duration < as_duration(probe_stream.frequency)
    /\ probe[1].instant > probe_stream.offset + as_duration(probe_stream.frequency)
    /\ probe[1].color = probe_stream.color
    /\ probe[1].color # black
    /\ probe[1].next_change > probe[1].instant + 1
    /\ get_color_at_instant(probe_stream, probe[1].next_change) = black

\* the colour is the same at every instant of [t, change)
ConstantUntil(s, t, change) ==
    \A u \in t..(change - 1) : get_color_at_instant(s, u) = get_color_at_instant(s, t)

(* C6: for a single stream and every instant t, get_next_change_after(t) is   *)
(* strictly later than t and the colour is constant on the half-open interval *)
(* from t to it.                                                              *)
C6_NoEdgeSkipped ==
    probe # None =>
        /\ probe[1].next_change # PanicInstant
        /\ probe[1].next_change > probe[1].instant
        /\ probe[1].color # PanicColor
        /\ ConstantUntil(probe_stream, probe[1].instant, probe[1].next_change)

\* C6 for the streams whose period is at least one microsecond
C6_NoEdgeSkippedPositivePeriod ==
    (probe # None /\ as_duration(probe_stream.frequency) > 0) =>
        /\ probe[1].next_change # PanicInstant
        /\ probe[1].next_change > probe[1].instant
        /\ probe[1].color # PanicColor
        /\ ConstantUntil(probe_stream, probe[1].instant, probe[1].next_change)

---------------------------------------------------------------------------
(* C11: StreamConfig::new panics, and returns no value, exactly when         *)
(* burst_duration exceeds the period of the frequency; every burst that is   *)
(* at most the period, the period itself included, yields the struct with    *)
(* the arguments as its fields.                                              *)
C11_ConstructionAssert ==
    construction # None =>
        LET c == construction[1]
            period == 2000000 \div c.frequency
        IN  /\ c.burst_duration > period => (c.panic /\ c.value = None)
            /\ c.burst_duration <= period =>
                   /\ ~c.panic
                   /\ c.value # None
                   /\ c.value[1].color = c.color
                   /\ c.value[1].frequency = c.frequency
                   /\ c.value[1].burst_duration = c.burst_duration
                   /\ get_start(c.value[1]) = unwrap_or(c.offset, Instant_MIN)

\* a burst exactly as long as a positive period was accepted
C11_Witness ==
    /\ construction # None
    /\ construction[1].burst_duration = 2000000 \div construction[1].frequency
    /\ construction[1].burst_duration > 0
    /\ construction[1].value # None

\* a burst one microsecond longer than the period was rejected
C11_WitnessRejected ==
    /\ construction # None
    /\ construction[1].burst_duration = (2000000 \div construction[1].frequency) + 1
    /\ construction[1].panic
---------------------------------------------------------------------------
(* C12: with an empty stream list no step is ever produced: the first call   *)
(* of next() panics (unwrap of the empty minimum) and leaves current_time    *)
(* as it was, still None.                                                    *)
C12_EmptyListFatal ==
    /\ [](Len(config.streams) = 0 =>
             /\ history = <<>>
             /\ current_time = None
             /\ red = <<>> /\ green = <<>> /\ blue = <<>>
             /\ returned = None)
    /\ [][(Len(config.streams) = 0 /\ calculate_next_buffer_step) =>
             (panicked' /\ current_time' = current_time /\ history' = history)]_vars

\* next() was called on an iterator without streams, and the task has halted
C12_Witness ==
    /\ Len(config.streams) = 0
    /\ config.micros_per_tick = 64
    /\ panicked
    /\ current_time = None
---------------------------------------------------------------------------
\* the PIO time, in microseconds, that the first n steps hold
RECURSIVE PioTime(_)
PioTime(n) == IF n = 0 THEN 0 ELSE PioTime(n - 1) + Accounted(n)

\* how many of the first n steps had their delay clamped
RECURSIVE ClampedSteps(_)
ClampedSteps(n) ==
    IF n = 0 THEN 0 ELSE ClampedSteps(n - 1) + (IF Clamped(n) THEN 1 ELSE 0)

\* current_time after step n minus the initial instant
WallSpan(n) == history[n].next_time - Instant_MIN

(* The first n steps of a run are the whole history of an earlier state of *)
(* the run, so a statement about every n is checked at n = Len(history).   *)

(* C18 as stated: for every n, the PIO time held by the first n steps,       *)
(* the sum of (delay + tick_overhead) * micros_per_tick, differs from the    *)
(* wall-clock span those steps cover by at most one tick.                    *)
C18_LongRunOneTick ==
    \A n \in LatestCall :
        Abs(PioTime(n) - WallSpan(n)) <= config.micros_per_tick

\* each of the first n steps spans fewer than 2^32 ticks, so that the cast
\* of its tick count to u32 loses nothing
StepsFitU32(n) ==
    \A i \in 1..n : fits_u32(Span(i) \div config.micros_per_tick)

(* C18 amended: as long as every step spans fewer than 2^32 ticks, every     *)
(* unclamped step falls short of its span by less than one tick and every    *)
(* clamped step exceeds its span by at most tick_overhead ticks: after n     *)
(* steps of which k were clamped the PIO time lies between the span minus    *)
(* (n - k) ticks and the span plus k * tick_overhead ticks, and with no      *)
(* clamped step it never exceeds the span and is less than n ticks short of  *)
(* it.  A step of 2^32 ticks or more loses the multiples of 2^32 ticks in    *)
(* the cast and is outside the statement.                                    *)
C18_LongRunTickPerStep ==
    \A n \in LatestCall :
        StepsFitU32(n) =>
            LET k == ClampedSteps(n)
                short == WallSpan(n) - PioTime(n)
            IN  /\ short <= (n - k) * config.micros_per_tick
                /\ short >= -(k * config.tick_overhead * config.micros_per_tick)
                /\ k = 0 => (0 <= short /\ short < n * config.micros_per_tick)

\* three unclamped steps at 64 us per tick that are more than one tick short
C18_Witness ==
    \E n \in LatestCall :
        /\ n >= 3
        /\ StepsFitU32(n)
        /\ ClampedSteps(n) = 0
        /\ config.micros_per_tick = 64 /\ config.tick_overhead = 5
        /\ WallSpan(n) - PioTime(n) > config.micros_per_tick

\* the steps of the run follow one another without a gap
C18_StepsContiguous ==
    \A i \in Calls :
        /\ i = 1 => history[i].eval_time = Instant_MIN
        /\ i > 1 => history[i].eval_time = history[i - 1].next_time

---------------------------------------------------------------------------
(* C19: the delay of every step is floor((next_time - eval_time) /           *)
(* micros_per_tick) minus tick_overhead, subtracted with saturation: zero    *)
(* when the span is shorter than tick_overhead ticks, never negative.        *)
C19_DelaySaturates ==
    \A i \in LatestCall :
        LET ticks == Span(i) \div config.micros_per_tick
            delay == history[i].step.delay
        IN  /\ delay >= 0
            /\ ticks >= config.tick_overhead => delay = ticks - config.tick_overhead
            /\ ticks < config.tick_overhead => delay = 0

\* a step that spans at least one tick but fewer than tick_overhead ticks
C19_Witness ==
    \E i \in LatestCall :
        /\ Span(i) \div config.micros_per_tick >= 1
        /\ Span(i) \div config.micros_per_tick < config.tick_overhead
        /\ history[i].step.delay = 0

---------------------------------------------------------------------------
S2Config == Config_new(<<S2StreamA, S2StreamB>>, 64, 5)

(* C20: scenario S2 (two 100 Hz streams with 5 ms bursts, (255,0,0) at       *)
(* offset 0 and (0,255,0) at offset 5 ms, micros_per_tick 64, tick_overhead  *)
(* 5): every step is (255,0,0) or (0,255,0), consecutive steps differ in     *)
(* colour, and all delays are equal.                                         *)
C20_S2Alternates ==
    config = S2Config =>
        \A i \in Calls :
            /\ history[i].step.color \in {Color(255, 0, 0), Color(0, 255, 0)}
            /\ i > 1 => history[i].step.color # history[i - 1].step.color
            /\ i > 1 => history[i].step.delay = history[i - 1].step.delay

\* what the code does on S2: an empty first step of colour (255,0,0) and
\* delay 0, then (255,0,0) and (0,255,0) in turn, each with delay 73
C20_S2StepsOfTheCode ==
    config = S2Config =>
        \A i \in Calls :
            /\ i = 1 => history[i].step = ColorStep(Color(255, 0, 0), 0)
            /\ (i > 1 /\ i % 2 = 0) => history[i].step = ColorStep(Color(255, 0, 0), 73)
            /\ (i > 1 /\ i % 2 = 1) => history[i].step = ColorStep(Color(0, 255, 0), 73)
---------------------------------------------------------------------------
\* the colour component that the channel transmits
component == [red |-> "r", green |-> "g", blue |-> "b"]

\* the word of the generator's i-th step for the channel, by its layout: the
\* colour component in the top byte, the low 24 bits of the delay below it
ChannelWord(c, i) ==
    [hi |-> history[i].step.color[component[c]], lo |-> history[i].step.delay % 16777216]

(* C13: for every word w that a state machine takes up, the program pushes  *)
(* exactly one value to the RX FIFO, the top byte of w in the low bits      *)
(* (0x00II), and then executes `jmp x-- delay` (w & 0xFFFFFF) + 1 times     *)
(* before it takes up the next word, whatever the words written to its TX   *)
(* FIFO and whenever they arrive.                                           *)
C13_ProgramContract ==
    \A c \in Channels :
        LET s == sm[c] IN
        /\ s.pc = "wait" => (s.begun = 0 /\ s.pushes = 0)
        /\ s.pc \in {"in_null", "in_y"} => s.pushes = s.begun - 1
        /\ s.pc \in {"out_x", "jmp", "out_y"} => s.pushes = s.begun
        /\ s.begun > 0 => s.word \in ProgramWords
        /\ s.pushes > 0 =>
              /\ s.last_push \in 0..255
              /\ s.pc \in {"out_x", "jmp", "out_y"} => s.last_push = s.word.hi
        /\ s.pc = "jmp" => (s.held <= s.word.lo /\ s.x = s.word.lo - s.held)
        /\ (s.pc = "out_y" /\ s.begun > 0) => s.held = s.word.lo + 1

\* a state machine has held a word of non-zero intensity for its delay of
\* at least one tick, and is about to take up its third word or a later one
C13_Witness ==
    \E c \in Channels :
        /\ sm[c].pc = "out_y"
        /\ sm[c].begun >= 2
        /\ sm[c].word.hi > 0
        /\ sm[c].word.lo >= 1
        /\ sm[c].held = sm[c].word.lo + 1
        /\ sm[c].pushes = sm[c].begun

---------------------------------------------------------------------------
SetupPcs ==
    {"set_config_red", "set_enable_red", "set_config_green", "set_enable_green",
     "set_config_blue", "set_enable_blue", "set_all"}

(* C14: no state machine is past the initial `wait 0 irq 0` until all three *)
(* have been configured and enabled and the firmware has made its           *)
(* irq_flags call, and then all three are past it together.                 *)
C14_StartBarrier ==
    \A c \in Channels :
        sm[c].pc # "wait" =>
            /\ pc \notin SetupPcs
            /\ \A d \in Channels : sm[d].enabled /\ sm[d].pc # "wait"

\* what holds the state machines: each stalls on `out y 8` until its TX FIFO
\* has received a word, and the IRQ flag 0 is never raised
C14_HeldByEmptyFifo ==
    /\ irq_flags = {}
    /\ \A c \in Channels : sm[c].begun > 0 => dma[c].launches > 0

---------------------------------------------------------------------------
\* the full buffer of the channel made of the last BufferSize steps
LatestBuffer(c, h) ==
    [i \in 1..BufferSize |-> encode(h[Len(h) - BufferSize + i].step, component[c])]

(* C15: the pump leaves join4 and swaps the buffers only when the generator *)
(* has returned a complete triple and none of the three refill channels is  *)
(* busy; while a refill channel is busy the buffers handed to dma_push do   *)
(* not change, whatever the generator does.                                 *)
C15_SwapDiscipline ==
    [][/\ (pc = "join4" /\ pc' # "join4") =>
             /\ \A c \in Channels : ~dma[c].busy /\ dma[c].trans_count = 0
             /\ Len(history') >= BufferSize
             /\ \A c \in Channels : front'[c] = LatestBuffer(c, history')
       /\ (\E c \in Channels : dma[c].busy) => front' = front]_vars

\* the generator has returned inside join4 while a refill channel is still
\* busy with a buffer of a later iteration: the pump waits
C15_Witness ==
    /\ pc = "join4"
    /\ returned # None
    /\ \E c \in Channels : dma[c].busy /\ dma[c].launches >= 2
    /\ \E c \in Channels : ~dma[c].busy

---------------------------------------------------------------------------
(* C16: a refill transfer is launched only after a complete buffer triple   *)
(* has been generated, and every refill transfer launched is one of a full  *)
(* buffer: BufferSize words per channel, never none and never fewer.        *)
C16_FullBuffersOnly ==
    /\ (\E c \in Channels : dma[c].launches > 0) =>
          /\ Len(history) >= BufferSize
          /\ pc \notin SetupPcs \cup {"first_buffer"}
    /\ \A c \in Channels :
          dma[c].launches > 0 =>
              /\ Len(front[c]) = BufferSize
              /\ (dma[c].read_index - 1) + dma[c].trans_count = BufferSize
              /\ dma[c].written + dma[c].trans_count = dma[c].launches * BufferSize

\* the second or a later transfer of a channel is under way
C16_Witness ==
    \E c \in Channels :
        /\ dma[c].launches >= 2
        /\ dma[c].busy
        /\ dma[c].trans_count < BufferSize

---------------------------------------------------------------------------
(* C17 as stated: when a refill transfer has completed, the state machine   *)
(* has taken every word of its buffer from the TX FIFO.                     *)
C17_CompletionMeansConsumed ==
    \A c \in Channels :
        (dma[c].launches > 0 /\ ~dma[c].busy) =>
            sm[c].taken = dma[c].launches * BufferSize

(* C17 amended: a refill transfer completes when the last word of its       *)
(* buffer has been written to the TX FIFO.  Every word written is either    *)
(* still in the FIFO, which holds at most FifoDepth words, or taken by the  *)
(* state machine, so at completion all but at most FifoDepth of the words   *)
(* launched so far have been taken.                                         *)
C17_CompletionMeansQueued ==
    \A c \in Channels :
        /\ Len(tx[c]) <= FifoDepth
        /\ sm[c].taken + Len(tx[c]) = dma[c].written
        /\ dma[c].busy => dma[c].written < dma[c].launches * BufferSize
        /\ ~dma[c].busy => dma[c].written = dma[c].launches * BufferSize
        /\ (dma[c].launches > 0 /\ ~dma[c].busy) =>
              sm[c].taken >= dma[c].launches * BufferSize - FifoDepth

\* a transfer that had to wait for the state machine has completed, with a
\* full FIFO of words not yet taken
C17_Witness ==
    \E c \in Channels :
        /\ dma[c].launches >= 2
        /\ ~dma[c].busy
        /\ Len(tx[c]) = FifoDepth
        /\ sm[c].taken >= 1
        /\ sm[c].taken = dma[c].launches * BufferSize - FifoDepth

---------------------------------------------------------------------------
(* Scenario S5: a stream whose burst fills its whole period *)

S5Period == as_duration(S5Stream.frequency)

\* C21: for the single stream ((10,10,10), 1 Hz, 1 s, offset 0) every step
\* returned by next() has colour (10,10,10), the first step ends at the
\* start instant, and every later step ends exactly one period after the
\* step before it (one step per period boundary).
C21_S5SolidForever ==
    config.streams = <<S5Stream>> =>
        \A i \in Calls :
            /\ history[i].step.color = Color(10, 10, 10)
            /\ history[i].next_time = get_start(S5Stream) + (i - 1) * S5Period
            /\ i > 1 => history[i].next_time - history[i - 1].next_time = S5Period
            /\ i = Len(history) => current_time = Some(history[i].next_time)

\* four steps of S5 returned at the firmware's tick parameters: the last one
\* ends three periods after the start
C21_Witness ==
    /\ config = Config_new(<<S5Stream>>, 64, 5)
    /\ S5Stream.burst_duration = S5Period
    /\ Len(history) = 4
    /\ history[4].step = ColorStep(Color(10, 10, 10), 15620)
    /\ current_time = Some(3 * S5Period)

---------------------------------------------------------------------------
(* Scenario S4: a stream that starts half a second after Instant::MIN *)

S4Config == Config_new(<<S4Stream>>, 64, 5)

\* C22: for the single stream ((128,128,128), 1 Hz, 100 ms, offset 500 ms)
\* at 64 us per tick and overhead 5, the first step of a fresh iterator is
\* black with delay 500000/64 - 5 = 7807 ticks, it covers the interval from
\* Instant::MIN to the offset, and after it current_time is the offset.
C22_S4LeadingBlack ==
    (config = S4Config /\ history # <<>>) =>
        /\ history[1].step = ColorStep(black, 7807)
        /\ history[1].eval_time = Instant_MIN
        /\ history[1].next_time = Instant_MIN + 500000
        /\ Len(history) = 1 => current_time = Some(get_start(S4Stream))

\* the fresh S4 iterator has returned exactly its first step
C22_Witness ==
    /\ config = S4Config
    /\ Len(history) = 1
    /\ history[1].step.color = black
    /\ history[1].step.delay = (500000 \div 64) - 5
    /\ current_time = Some(500000)

---------------------------------------------------------------------------
(* Piecewise-constant summation *)

\* the instants around t at which stream s can change colour: its start and
\* the burst and period boundaries of the period t lies in and of the next
StreamEdges(s, t) ==
    LET start == get_start(s)
        period == as_duration(s.frequency) IN
    IF period = 0 \/ t < start THEN {start}
    ELSE LET base == start + ((t - start) \div period) * period IN
         {start, base, base + s.burst_duration, base + period,
          base + period + s.burst_duration}

\* the instants of step i at which the sum is compared: all of them when the
\* step is short, otherwise its two ends and every stream edge inside it
\* together with the instant before and after the edge
Instants(i) ==
    LET lo == history[i].eval_time
        hi == history[i].next_time IN
    IF hi - lo <= MaxInstant THEN lo..(hi - 1)
    ELSE LET edges == UNION {StreamEdges(config.streams[k], lo) :
                               k \in 1..Len(config.streams)}
             near == UNION {{e - 1, e, e + 1} : e \in edges}
         IN {t \in near \cup {lo, hi - 1} : lo <= t /\ t < hi}

\* C23: for the step just returned by next(), with any number of streams,
\* the summed colour of all streams at every instant t with
\* eval_time <= t < next_time equals the sum the step's colour was computed
\* from: no stream changes colour strictly inside the step's interval.
C23_PiecewiseConstant ==
    \A i \in LatestCall :
        \A t \in Instants(i) :
            fold_colors(config, t, Len(config.streams)) = history[i].sum

\* a step of two streams that lasts several instants while one stream is in
\* its burst and the other is not
C23_Witness ==
    /\ Len(config.streams) = 2
    /\ \E i \in LatestCall :
          /\ Span(i) >= 2
          /\ get_color_at_instant(config.streams[1], history[i].eval_time) = black
          /\ get_color_at_instant(config.streams[2], history[i].eval_time) # black
          /\ get_color_at_instant(config.streams[2], history[i].next_time) = black
          /\ history[i].sum = config.streams[2].color

---------------------------------------------------------------------------
(* The 24-bit delay field *)

\* C28: for every step produced from streams accepted by StreamConfig::new
\* the delay is below 2^24, so the 24-bit delay field of each encoded word
\* equals the step's delay and the mask 0x00FFFFFF removes nothing.
C28_NoDelayBitsLost ==
    \A i \in Calls :
        /\ history[i].step.delay < 2^24
        /\ \A c \in Channels : ChannelWord(c, i).lo = history[i].step.delay

\* what the code does: the delay field is the step's delay modulo 2^24
C28_MaskKeepsLow24Bits ==
    \A i \in Calls :
        \A c \in Channels : ChannelWord(c, i).lo = history[i].step.delay % 2^24

\* the first step of the late stream at one microsecond per tick: a delay of
\* 20000000 ticks whose encoded field is 20000000 - 2^24
C28_Truncated ==
    /\ config = Config_new(<<LateStream>>, 1, 0)
    /\ history # <<>>
    /\ history[1].step.delay = 20000000
    /\ encode_red(history[1].step).lo = 3222784

---------------------------------------------------------------------------
(* The tick overhead of the PIO program *)

\* the state machine of channel c has finished the word it began last
WordDone(c) == sm[c].pc = "out_y" /\ sm[c].begun > 0

\* the spans, in microseconds, from which next() computes a delay: up to
\* eight ticks, and around the firmware's burst of 3000 us
ProgramSpans == (0 .. 8 * MICROS_PER_TICK) \cup {2943, 2944, 3000, 3007, 3008}

\* C24: a state machine that was not stalled spends exactly delay + 5 ticks
\* on a word whose delay field is `delay` (out y, two in, out x, and
\* delay + 1 executions of the jmp), so at 64 us per tick and an overhead of
\* 5 a step computed from a span of S us occupies exactly floor(S / 64)
\* ticks whenever floor(S / 64) >= 5.
C24_TickOverhead ==
    \A c \in Channels :
        /\ sm[c].begun > 0 => sm[c].spent - sm[c].stalls <= sm[c].word.lo + 5
        /\ WordDone(c) =>
              /\ sm[c].held = sm[c].word.lo + 1
              /\ sm[c].spent - sm[c].stalls = sm[c].word.lo + 5
              /\ \A span \in ProgramSpans :
                    (/\ sm[c].stalls = 0
                     /\ config.micros_per_tick = 64
                     /\ config.tick_overhead = 5
                     /\ span \div 64 >= 5
                     /\ sm[c].word.lo = step_delay(span, config.micros_per_tick,
                                                   config.tick_overhead))
                    => sm[c].spent = span \div 64

\* the red state machine has finished, without a stall, the word of the
\* firmware's burst of 3000 us: 46 ticks, 41 of them delay
C24_Witness ==
    /\ config.micros_per_tick = MICROS_PER_TICK
    /\ config.tick_overhead = TICK_OVERHEAD
    /\ WordDone("red")
    /\ sm["red"].stalls = 0
    /\ sm["red"].word = [hi |-> 255, lo |-> 41]
    /\ sm["red"].word.lo = step_delay(3000, config.micros_per_tick, config.tick_overhead)
    /\ sm["red"].spent = 46

---------------------------------------------------------------------------
(* The stream of words each state machine receives *)

\* the words of channel c for the steps from + 1, ..., from + n
ChannelWords(c, from, n) == [k \in 1..n |-> ChannelWord(c, from + k)]

\* the Vec the generator is filling for channel c
back == [red |-> red, green |-> green, blue |-> blue]

\* C25: for each colour channel the words delivered to the state machine
\* are the channel encodings of the iterator's steps, in order and without
\* gap or repetition, inside a buffer and across buffer swaps: the word the
\* machine works on is that of step `begun`, the word in its OSR that of
\* step `taken`, the TX FIFO holds the words of the steps after it, the
\* refill channel has written exactly those, its next word is the one that
\* follows, and the buffers hold consecutive steps.
C25_SeamlessStream ==
    \A c \in Channels :
        LET m == sm[c]
            d == dma[c]
        IN  /\ m.begun <= m.taken /\ m.taken <= m.begun + 1
            /\ d.written = m.taken + Len(tx[c])
            /\ d.written <= Len(history)
            /\ m.begun > 0 => m.word = ChannelWord(c, m.begun)
            /\ m.taken > 0 => m.osr = ChannelWord(c, m.taken)
            /\ tx[c] = ChannelWords(c, m.taken, Len(tx[c]))
            /\ d.launches > 0 =>
                  d.written = (d.launches - 1) * BufferSize + d.read_index - 1
            /\ d.busy =>
                  /\ d.read_index + d.trans_count = BufferSize + 1
                  /\ front[c] = ChannelWords(c, (d.launches - 1) * BufferSize, BufferSize)
            /\ (pc = dma_push_pc[c] \/
                (pc = "dma_push_red" /\ c # "red") \/
                (pc = "dma_push_green" /\ c = "blue")) =>
                  front[c] = ChannelWords(c, d.launches * BufferSize, BufferSize)
            /\ back[c] = ChannelWords(c, Len(history) - Len(back[c]), Len(back[c]))
            /\ returned # None =>
                  returned[1][c] = ChannelWords(c, Len(history) - BufferSize, BufferSize)

\* the buffers have been swapped twice and the red state machine works on
\* the first word of the first buffer: its OSR holds the second word, and
\* its TX FIFO the two words of the second buffer and the two of the third
C25_Witness ==
    /\ dma["red"].launches = 3
    /\ ~dma["red"].busy
    /\ sm["red"].begun = 1
    /\ sm["red"].taken = BufferSize
    /\ sm["red"].word = encode_red(history[1].step)
    /\ sm["red"].osr = encode_red(history[BufferSize].step)
    /\ tx["red"] = [k \in 1..2 * BufferSize |-> encode_red(history[BufferSize + k].step)]
    /\ tx["red"][BufferSize] # tx["red"][BufferSize + 1]

---------------------------------------------------------------------------
(* The forward DMA pairs *)

Other(ch) == IF ch = "a" THEN "b" ELSE "a"

\* the words the pair of colour c has moved to the compare register
Moved(c) == fwd[c]["a"].moved + fwd[c]["b"].moved

\* the pair of colour c: each channel chains to the other, exactly one of
\* the two is active, and every word pushed is in the RX FIFO or was moved
PairInOrder(c) ==
    /\ \A ch \in Pair : fwd[c][ch].chain_to = Other(ch) /\ fwd[c][ch].en
    /\ fwd[c]["a"].busy # fwd[c]["b"].busy
    /\ \A ch \in Pair : fwd[c][ch].busy <=> fwd[c][ch].trans_count > 0
    /\ Moved(c) + Len(rx[c]) = sm[c].pushes

\* a step that takes a word from the RX FIFO of colour c writes its low half
\* to the compare register of that colour and exhausts or keeps the channel
Forwarded(c) ==
    Len(rx'[c]) < Len(rx[c]) =>
        /\ pwm_cc'[c] = Head(rx[c]) % 65536
        /\ \E ch \in Pair :
              /\ fwd[c][ch].busy
              /\ fwd[c][ch].trans_count = 1 =>
                    (~fwd'[c][ch].busy /\ fwd'[c][Other(ch)].busy
                     /\ fwd'[c][Other(ch)].trans_count = FwdTransCount)

\* C27: for each colour the two forward channels chain to each other, at
\* most one of them is active at any time, when the active one exhausts
\* its transfer count the other takes over, and every word a state machine
\* pushes into its RX FIFO is eventually written to the compare register of
\* that colour's PWM slice: no word leaves the RX FIFO but to the compare
\* register, and again and again the RX FIFO is empty with every pushed
\* word moved.
C27_ForwardChain ==
    /\ [](\A c \in Channels : PairInOrder(c))
    /\ [][\A c \in Channels : Forwarded(c)]_vars
    /\ []<>(\A c \in Channels : rx[c] = <<>> /\ Moved(c) = sm[c].pushes)

\* the red pair after two handovers: the second channel has exhausted its
\* count, the first one took over and exhausted its own, and the second is
\* active again, with the red intensity of the last word moved in the
\* compare register
C27_Witness ==
    /\ fwd["red"]["b"].moved = FwdTransCount
    /\ fwd["red"]["a"].moved = FwdTransCount
    /\ fwd["red"]["b"].busy
    /\ ~fwd["red"]["a"].busy
    /\ sm["red"].pushes = 2 * FwdTransCount
    /\ pwm_cc["red"] = sm["red"].last_push
    /\ pwm_cc["red"] = 255
    /\ rx["red"] = <<>>

---------------------------------------------------------------------------
(* Progress of the pump *)

\* the state machine of channel c is held at `out y 8`: its OSR is empty
Starved(c) ==
    sm[c].pc = "out_y" /\ sm[c].osr_count >= pull_threshold

\* the state machine of channel c is held at `in y 8`: its push finds the RX
\* FIFO full
Blocked(c) ==
    sm[c].pc = "in_y" /\ Len(rx[c]) = FifoDepth

\* the buffers the red channel is handed within ChannelCalls calls of next(),
\* and the words they hold
Handovers == ChannelCalls \div BufferSize
Fed == Handovers * BufferSize

(* the red channel has played every word it was handed: the last transfer  *)
(* is done, the state machine has taken, begun and finished every word and  *)
(* waits for the next, both FIFOs are empty, the forward pair has moved     *)
(* every intensity and the compare register holds the last one              *)
Played ==
    /\ dma["red"].launches = Handovers
    /\ ~dma["red"].busy
    /\ dma["red"].written = Fed
    /\ sm["red"].taken = Fed
    /\ sm["red"].begun = Fed
    /\ sm["red"].pushes = Fed
    /\ Starved("red")
    /\ tx["red"] = <<>>
    /\ rx["red"] = <<>>
    /\ Moved("red") = Fed
    /\ pwm_cc["red"] = red_buffers[Handovers][BufferSize].hi

Buffers == FairCalls \div BufferSize

(* C26, the loop of the task with the three channels side by side, as far  *)
(* as every interleaving of three state machines can be followed: the task  *)
(* never panics, and it comes to join4 with every buffer launched that the  *)
(* generator fills within FairCalls calls, so the join4 before has become   *)
(* ready and the buffers have been swapped.                                 *)
C26_PumpIterates ==
    /\ [](~panicked)
    /\ <>(pc = "join4" /\ \A c \in Channels : dma[c].launches = Buffers)

---------------------------------------------------------------------------
(* Errors in MqttRunner::run *)

\* the step is an iteration of the loop of run: select has yielded, and the
\* handler has returned or is suspended
LoopIteration == mqtt.pc = "select" /\ mqtt'.loops = mqtt.loops + 1

\* the step is an iteration whose select yielded the result of read_packet
ReadIteration(read) ==
    /\ LoopIteration
    /\ mqtt'.event = Some([either |-> "First", value |-> read,
                           arm |-> run_match("First", read)])

\* the step is an iteration whose select yielded a TxPacket; the first poll
\* of its write had the given outcome
TransmitIteration(packet, poll) ==
    /\ LoopIteration
    /\ mqtt.queue # <<>>
    /\ packet = Head(mqtt.queue)
    /\ mqtt'.event = Some([either |-> "Second", value |-> packet,
                           arm |-> "handle_transmit", outcome |-> poll])

\* run has returned the error `error`
Returned(error) == mqtt'.pc = "returned" /\ mqtt'.result = Some(Err(error))

\* the step leaves run suspended at `at`: nothing is returned, written or
\* published by it
Suspended(at) ==
    /\ mqtt'.pc = at
    /\ mqtt'.result = None
    /\ mqtt'.sent = mqtt.sent
    /\ mqtt'.messages = mqtt.messages
    /\ mqtt'.published = mqtt.published

\* C29: after a successful connect, an iteration whose read_packet failed
\* or decoded no packet leaves run in its loop with the channels, the socket
\* output and the published messages as they were; an error of
\* handle_receive (a Publish whose payload is not UTF-8) or of
\* handle_transmit (a topic that does not fit, a packet that cannot be
\* encoded or written, at once or after the write was pending) makes run
\* return that error; a handler that does not fail, suspended or not, leads
\* back to the select; mqtt_task panics when run has returned; and run never
\* returns Ok.
C29_RunErrors ==
    /\ [](/\ mqtt.result # None => ~mqtt.result[1].ok
          /\ mqtt.pc = "returned" => mqtt.result # None
          /\ mqtt.pc = "write" <=> mqtt.writing # None
          /\ mqtt.pc # "unreachable")
    /\ [][/\ \A read \in {Err("TcpError"), Err("DecodeError"), Ok(None)} :
               ReadIteration(read) =>
                   /\ Suspended("select")
                   /\ mqtt'.queue = mqtt.queue
          /\ \A packet \in Packets :
               ReadIteration(Ok(Some(packet))) =>
                   /\ (packet.kind = "Publish" /\ ~packet.utf8) => Returned("DecodeError")
                   /\ (packet.kind = "Publish" /\ packet.utf8) => Suspended("select")
                   /\ packet.kind = "Pingresp" => Suspended("select")
                   /\ packet.kind = "Connack" =>
                         IF mqtt.subscribed /\ Len(mqtt.messages) >= MaxMessages
                         THEN Suspended("publish")
                         ELSE /\ mqtt'.pc = "select"
                              /\ mqtt'.result = None
                              /\ mqtt'.published = mqtt.published + 1
          /\ (mqtt.pc = "publish" /\ mqtt'.pc # "publish") =>
                /\ mqtt'.pc = "select"
                /\ mqtt'.result = None
                /\ mqtt'.published = mqtt.published + 1
                /\ mqtt'.messages = Append(mqtt.messages, "Connected")
          /\ \A packet \in TxPackets, poll \in WritePolls :
               TransmitIteration(packet, poll) =>
                   /\ (packet.kind = "Subscribe" /\ packet.long = 1) => Returned("Generic")
                   /\ (packet.kind # "Subscribe" /\ poll \in {"EncodeError", "TcpError"}) =>
                         Returned(poll)
                   /\ (packet.kind # "Subscribe" /\ poll = "written") =>
                         (mqtt'.pc = "select" /\ mqtt'.sent = Append(mqtt.sent, packet.kind))
                   /\ (packet.kind # "Subscribe" /\ poll = "pending") =>
                         /\ Suspended("write")
                         /\ mqtt'.queue = Tail(mqtt.queue)
                         /\ mqtt'.writing = Some(packet.kind)
          /\ (mqtt.pc = "write" /\ mqtt'.pc = "write") =>
                /\ mqtt'.result = None
                /\ mqtt'.sent = mqtt.sent
                /\ mqtt'.writing = mqtt.writing
                /\ mqtt'.published = mqtt.published
          /\ (mqtt.pc = "write" /\ mqtt'.pc # "write") =>
                \/ /\ mqtt'.pc = "select"
                   /\ mqtt'.result = None
                   /\ mqtt'.sent = Append(mqtt.sent, mqtt.writing[1])
                \/ Returned("TcpError") /\ mqtt'.sent = mqtt.sent
          /\ (mqtt.pc = "returned" /\ mqtt'.pc # "returned") => mqtt'.pc = "panicked"
          /\ mqtt.pc = "panicked" => mqtt'.pc = "panicked"
          /\ mqtt'.pc = "returned" => mqtt'.result # None
         ]_vars

\* a read that failed was followed by further iterations; then a Pingreq
\* was taken from the channel and its write was pending, another task sent
\* a Publish meanwhile, and the write failed: run returned TcpError with the
\* Publish still in the channel, and mqtt_task panicked
C29_Witness ==
    /\ mqtt.pc = "panicked"
    /\ mqtt.loops = MaxLoops
    /\ mqtt.result = Some(Err("TcpError"))
    /\ mqtt.event # None
    /\ mqtt.event[1].either = "Second"
    /\ mqtt.event[1].value.kind = "Pingreq"
    /\ mqtt.event[1].outcome = "pending"
    /\ mqtt.queue = <<[kind |-> "Publish"]>>
    /\ mqtt.sent = <<"Connect">>

\* run is in its loop after an iteration whose read failed
C29_WitnessFailedRead ==
    /\ mqtt.pc = "select"
    /\ mqtt.loops >= 2
    /\ mqtt.event = Some([either |-> "First", value |-> Err("TcpError"), arm |-> "_"])
    /\ mqtt.published = 1

\* a Connack was read while the RxPacket channel was full: run waited in
\* publish until the subscriber took a message, and is in its loop again
C29_WitnessPublishWaited ==
    /\ mqtt.pc = "select"
    /\ mqtt.published = 2
    /\ mqtt.messages = <<"Connected">>
    /\ mqtt.loops = 2
====
